---- MODULE Spec2Model ----
(***************************************************************************)
(* GLITCH WARS multi-room game server: the room gatekeeper (RoomManager),  *)
(* the room (GameRoom), the player session (Player) and the world-delta    *)
(* store (MapStorage), modelled as one state machine.                      *)
(*                                                                         *)
(* Numbers.  JavaScript numbers that carry positions and block coordinates *)
(* are fixed-point integers in units of 1/Scale block.  Date.now() is an   *)
(* integer count of milliseconds.  Loot multipliers are kept times ten.    *)
(*                                                                         *)
(* Objects.  Player objects live in the heap `player` (indexed by session  *)
(* id, the uuid of the connection); GameRoom objects live in the heap      *)
(* `room` and their MapStorage objects in `mapStorage` (same index).  The  *)
(* Maps of the program hold references into these heaps, so an object can  *)
(* be referenced by a suspended continuation after it left a Map.          *)
(***************************************************************************)
EXTENDS Integers, Sequences, FiniteSets, TLC

----------------------------------------------------------------------------
(* Bounds of the model *)

MaxSessions == 2     \* Player objects a run can hold
GateConnections == 1 \* connections accepted in a run of the gatekeeper
MaxInflight == 2     \* handleLogin continuations suspended at the same time
MaxRooms == 5        \* GameRoom objects ever constructed (3 default rooms first)
MaxElapsed == 1      \* clock steps a run of the gatekeeper takes
Scale == 2           \* fixed-point denominator of positions and coordinates
StartTime == 1000000 \* Date.now() when the server starts (stands for epoch ms)

\* Room capacities, scaled down from TIER_CONFIG.maxPlayers (50, 30, 20) so
\* that a full room is reachable with MaxSessions connections.
CapFree == 2
CapPremium == 1
CapWhale == 1

Sessions == 1..MaxSessions

----------------------------------------------------------------------------
(* Player.js: tiers and thresholds *)

ThresholdOperator == 100
ThresholdWhale == 1000

PLAYER_TIER == {"SCAVENGER", "OPERATOR", "WHALE"}
ROOM_TIER == {"FREE", "PREMIUM", "WHALE"}
\* Object.values(this.rooms) / Object.entries(this.rooms): insertion order
TierOrder == <<"FREE", "PREMIUM", "WHALE">>

calculateTierOff(balance) ==
    IF balance > ThresholdWhale THEN "WHALE"
    ELSE IF balance > ThresholdOperator THEN "OPERATOR"
    ELSE "SCAVENGER"

calculateTier(balance) ==
    IF balance >= ThresholdWhale THEN "WHALE"
    ELSE IF balance >= ThresholdOperator THEN "OPERATOR"
    ELSE "SCAVENGER"

determineRoomTierOff(stakedBalance) ==
    IF stakedBalance > ThresholdWhale THEN "WHALE"
    ELSE IF stakedBalance >= ThresholdOperator THEN "PREMIUM"
    ELSE "FREE"

determineRoomTier(stakedBalance) ==
    IF stakedBalance >= ThresholdWhale THEN "WHALE"
    ELSE IF stakedBalance >= ThresholdOperator THEN "PREMIUM"
    ELSE "FREE"

\* GameRoom.js TIER_CONFIG
maxPlayers(tier) ==
    CASE tier = "FREE" -> CapFree
      [] tier = "PREMIUM" -> CapPremium
      [] tier = "WHALE" -> CapWhale

\* lootMultiplier, times ten (1.0, 2.5, 5.0)
lootMultiplierX10(tier) ==
    CASE tier = "FREE" -> 10
      [] tier = "PREMIUM" -> 25
      [] tier = "WHALE" -> 50

\* tier.toLowerCase()
toLowerCase(tier) ==
    CASE tier = "FREE" -> "free"
      [] tier = "PREMIUM" -> "premium"
      [] tier = "WHALE" -> "whale"

----------------------------------------------------------------------------
(* Wallet references.  A wallet string is kept as the facts the code reads *)
(* from it: its two leading characters, its length, whether it starts with *)
(* 0xwhale / 0xnoob, and parseInt of its last four characters, base 16.    *)

Wallet(pfx, len, kind, last4) ==
    [pfx |-> pfx, len |-> len, kind |-> kind, last4 |-> last4]

\* null / undefined / "" (player.wallet before authentication, a LOGIN
\* message without a wallet field)
NoWallet == Wallet("", 0, "none", 0)

\* the wallets of the gatekeeper runs
WalletSamples ==
    { Wallet("0x", 41, "hex", 100),     \* wrong length
      Wallet("0x", 42, "noob", 0),      \* 0xnoob...      -> 50
      Wallet("0x", 42, "whale", 0) }    \* 0xwhale...     -> 5000

\* the wallets of the tier runs: every way to be malformed, and the stakes
\* around both thresholds
BoundaryWallets ==
    { NoWallet,
      Wallet("0x", 41, "hex", 100),     \* wrong length
      Wallet("1x", 42, "hex", 100),     \* wrong prefix
      Wallet("0x", 42, "noob", 0),      \* 0xnoob...      -> 50
      Wallet("0x", 42, "hex", 99),      \* ...0063        -> 99
      Wallet("0x", 42, "hex", 100),     \* ...0064        -> 100
      Wallet("0x", 42, "hex", 999),     \* ...03e7        -> 999
      Wallet("0x", 42, "hex", 3000),    \* ...0bb8 % 2000 -> 1000
      Wallet("0x", 42, "whale", 0) }    \* 0xwhale...     -> 5000

\* !wallet || !wallet.startsWith('0x') || wallet.length !== 42
walletInvalid(wallet) ==
    \/ wallet.len = 0
    \/ wallet.pfx # "0x"
    \/ wallet.len # 42

\* the mock balance lookup
getWalletBalance(wallet) ==
    IF wallet.kind = "whale" THEN 5000
    ELSE IF wallet.kind = "noob" THEN 50
    ELSE wallet.last4 % 2000

----------------------------------------------------------------------------
(* Small helpers for Maps *)

EmptyMap == [k \in {} |-> 0]

MapSet(m, k, v) == [x \in (DOMAIN m) \cup {k} |-> IF x = k THEN v ELSE m[x]]

MapDelete(m, k) == [x \in (DOMAIN m) \ {k} |-> m[x]]

Range(s) == { s[i] : i \in DOMAIN s }

\* a multiset of suspended continuations: element -> count
BagAdd(b, e) ==
    IF e \in DOMAIN b THEN [b EXCEPT ![e] = @ + 1] ELSE MapSet(b, e, 1)

BagRemove(b, e) ==
    IF b[e] > 1 THEN [b EXCEPT ![e] = @ - 1] ELSE MapDelete(b, e)

RECURSIVE SumOver(_, _)
SumOver(f, S) ==
    IF S = {} THEN 0
    ELSE LET e == CHOOSE e \in S : TRUE IN f[e] + SumOver(f, S \ {e})

BagSize(b) == SumOver(b, DOMAIN b)

----------------------------------------------------------------------------
(* Messages written to sockets.  Every message has the same shape: the     *)
(* recipient, the type, a reason code ("" when the message has none), a    *)
(* room id, a tuple of numbers and a set of block changes.                 *)

Msg(to, type, reason, roomId, nums, changes) ==
    [to |-> to, type |-> type, reason |-> reason, roomId |-> roomId,
     nums |-> nums, changes |-> changes]

\* Player.send: written only when socket.readyState is OPEN
send(sk, to, type, reason, roomId, nums, changes) ==
    IF sk[to] = "open" THEN {Msg(to, type, reason, roomId, nums, changes)} ELSE {}

\* GameRoom.broadcast: every member but excludeId whose socket is OPEN
\* (excludeId = 0 stands for null)
broadcast(sk, members, excludeId, type, reason, roomId, nums, changes) ==
    { Msg(id, type, reason, roomId, nums, changes) :
        id \in { m \in members : m # excludeId /\ sk[m] = "open" } }

----------------------------------------------------------------------------
(* MapStorage.js *)

AIR == 0
CONCRETE_FLOOR == 1
CONCRETE_WALL == 2
HAZARD_NEON == 3
EXTRACTION_BEAM == 4
BEDROCK == 5
GOLD_LOOT == 6
METAL_BRIDGE == 7

BLOCK_TYPE == {AIR, CONCRETE_FLOOR, CONCRETE_WALL, HAZARD_NEON,
               EXTRACTION_BEAM, BEDROCK, GOLD_LOOT, METAL_BRIDGE}

MINEABLE_BLOCKS == {GOLD_LOOT, CONCRETE_FLOOR, CONCRETE_WALL, METAL_BRIDGE}

\* BLOCK_VALUE[originalBlockType] || 1
BLOCK_VALUE(t) ==
    CASE t = GOLD_LOOT -> 50
      [] t = CONCRETE_FLOOR -> 1
      [] t = CONCRETE_WALL -> 2
      [] t = METAL_BRIDGE -> 5
      [] OTHER -> 1

\* Math.floor of a fixed-point number, in whole blocks
floor(x) == x \div Scale

\* a block key that keeps the fractions of the coordinates
blockKeyExact(x, y, z) == <<x, y, z>>

\* `${Math.floor(x)},${Math.floor(y)},${Math.floor(z)}`
blockKey(x, y, z) == <<floor(x), floor(y), floor(z)>>

\* the MapStorage object the constructor builds before load()
EmptyStore(mapId) ==
    [mapId |-> mapId,
     blockChanges |-> EmptyMap,
     lootSpawns |-> EmptyMap,
     totalBlocksMined |-> 0,
     totalGoldMined |-> 0,
     isDirty |-> FALSE,
     saveTimer |-> TRUE]

isModified(st, x, y, z) == blockKey(x, y, z) \in DOMAIN st.blockChanges

\* getBlock: the override, or -1 for null (use the procedural block)
getBlock(st, x, y, z) ==
    IF blockKey(x, y, z) \in DOMAIN st.blockChanges
    THEN st.blockChanges[blockKey(x, y, z)]
    ELSE -1

setBlock(st, x, y, z, blockType) ==
    [st EXCEPT !.blockChanges = MapSet(@, blockKey(x, y, z), blockType),
               !.isDirty = TRUE]

MineResult(success, value, wasGold, reason) ==
    [success |-> success, value |-> value, wasGold |-> wasGold, reason |-> reason]

\* mineBlock without the already-mined check
mineBlockNoCheck(st, x, y, z, originalBlockType) ==
    LET key == blockKey(x, y, z)
        wasGold == originalBlockType = GOLD_LOOT
    IN  IF originalBlockType \notin MINEABLE_BLOCKS
        THEN [st |-> st, res |-> MineResult(FALSE, 0, FALSE, "NOT_MINEABLE")]
        ELSE [st |-> [st EXCEPT !.blockChanges = MapSet(@, key, AIR),
                                !.isDirty = TRUE,
                                !.totalBlocksMined = @ + 1,
                                !.totalGoldMined = IF wasGold THEN @ + 1 ELSE @],
              res |-> MineResult(TRUE, BLOCK_VALUE(originalBlockType), wasGold, "OK")]

\* mineBlock that counts a refused mine of a mined block
mineBlockCountsRefused(st, x, y, z, originalBlockType) ==
    LET key == blockKey(x, y, z) IN
    IF key \in DOMAIN st.blockChanges /\ st.blockChanges[key] = AIR
    THEN [st |-> [st EXCEPT !.totalBlocksMined = @ + 1, !.isDirty = TRUE],
          res |-> MineResult(FALSE, 0, FALSE, "ALREADY_MINED")]
    ELSE mineBlockNoCheck(st, x, y, z, originalBlockType)

\* mineBlock: the store after the call and the returned object
mineBlock(st, x, y, z, originalBlockType) ==
    LET key == blockKey(x, y, z)
        wasGold == originalBlockType = GOLD_LOOT
    IN  IF key \in DOMAIN st.blockChanges /\ st.blockChanges[key] = AIR
        THEN [st |-> st, res |-> MineResult(FALSE, 0, FALSE, "ALREADY_MINED")]
        ELSE IF originalBlockType \notin MINEABLE_BLOCKS
        THEN [st |-> st, res |-> MineResult(FALSE, 0, FALSE, "NOT_MINEABLE")]
        ELSE [st |-> [st EXCEPT !.blockChanges = MapSet(@, key, AIR),
                                !.isDirty = TRUE,
                                !.totalBlocksMined = @ + 1,
                                !.totalGoldMined = IF wasGold THEN @ + 1 ELSE @],
              res |-> MineResult(TRUE, BLOCK_VALUE(originalBlockType), wasGold, "OK")]

\* registerLoot (it does not set isDirty)
registerLoot(st, x, y, z, type, value, now) ==
    [st EXCEPT !.lootSpawns =
        MapSet(@, blockKey(x, y, z),
               [type |-> type, value |-> value, spawnTime |-> now,
                collected |-> FALSE])]

\* getLoot: TRUE when an uncollected entry is there
hasLoot(st, x, y, z) ==
    /\ blockKey(x, y, z) \in DOMAIN st.lootSpawns
    /\ ~st.lootSpawns[blockKey(x, y, z)].collected

\* a collectLoot that hands out the value and leaves the entry as it was
collectLootKeepsEntry(st, x, y, z) ==
    LET key == blockKey(x, y, z) IN
    IF ~hasLoot(st, x, y, z)
    THEN [st |-> st, success |-> FALSE, value |-> 0]
    ELSE [st |-> [st EXCEPT !.isDirty = TRUE],
          success |-> TRUE, value |-> st.lootSpawns[key].value]

\* collectLoot: the store after the call and the returned object
collectLoot(st, x, y, z) ==
    LET key == blockKey(x, y, z) IN
    IF ~hasLoot(st, x, y, z)
    THEN [st |-> st, success |-> FALSE, value |-> 0]
    ELSE [st |-> [st EXCEPT !.lootSpawns[key].collected = TRUE,
                            !.isDirty = TRUE],
          success |-> TRUE, value |-> st.lootSpawns[key].value]

\* Array.from(map.entries()): the [key, value] pairs of a Map
entries(m) == { <<k, m[k]>> : k \in DOMAIN m }

\* new Map(pairs)
MapOf(pairs) ==
    [k \in { p[1] : p \in pairs } |-> (CHOOSE p \in pairs : p[1] = k)[2]]

\* toJSON (savedAt is never read back and is left out)
toJSON(st) ==
    [mapId |-> st.mapId,
     version |-> 1,
     stats |-> [totalBlocksMined |-> st.totalBlocksMined,
                totalGoldMined |-> st.totalGoldMined,
                changedBlocks |-> Cardinality(DOMAIN st.blockChanges)],
     blockChanges |-> entries(st.blockChanges),
     lootSpawns |-> entries(st.lootSpawns)]

\* fromJSON that applies a record of any version
fromJSONAnyVersion(st, data) ==
    [st EXCEPT !.totalBlocksMined = data.stats.totalBlocksMined,
               !.totalGoldMined = data.stats.totalGoldMined,
               !.blockChanges = MapOf(data.blockChanges),
               !.lootSpawns = MapOf(data.lootSpawns)]

\* fromJSON that restores the loot as not collected
fromJSONLootFresh(st, data) ==
    IF data.version # 1 THEN st
    ELSE [st EXCEPT !.totalBlocksMined = data.stats.totalBlocksMined,
                    !.totalGoldMined = data.stats.totalGoldMined,
                    !.blockChanges = MapOf(data.blockChanges),
                    !.lootSpawns =
                        MapOf({ <<p[1], [p[2] EXCEPT !.collected = FALSE]>> :
                                  p \in data.lootSpawns })]

\* fromJSON: a record of another version is skipped
fromJSON(st, data) ==
    IF data.version # 1 THEN st
    ELSE [st EXCEPT !.totalBlocksMined = data.stats.totalBlocksMined,
                    !.totalGoldMined = data.stats.totalGoldMined,
                    !.blockChanges = MapOf(data.blockChanges),
                    !.lootSpawns = MapOf(data.lootSpawns)]

\* save that clears the dirty flag whether or not the write succeeded
saveForgetsFailure(st, files, writeOk) ==
    IF ~st.isDirty THEN [st |-> st, files |-> files]
    ELSE [st |-> [st EXCEPT !.isDirty = FALSE],
          files |-> IF writeOk THEN MapSet(files, st.mapId, toJSON(st)) ELSE files]

\* save that writes the file and leaves the dirty flag as it is
saveKeepsDirty(st, files, writeOk) ==
    IF ~st.isDirty \/ ~writeOk THEN [st |-> st, files |-> files]
    ELSE [st |-> st, files |-> MapSet(files, st.mapId, toJSON(st))]

\* save: the store and the files after the call; writeOk is whether
\* fs.writeFileSync returns or throws
save(st, files, writeOk) ==
    IF ~st.isDirty THEN [st |-> st, files |-> files]
    ELSE IF writeOk
    THEN [st |-> [st EXCEPT !.isDirty = FALSE],
          files |-> MapSet(files, st.mapId, toJSON(st))]
    ELSE [st |-> st, files |-> files]

\* load: nothing when the file does not exist
load(st, files) ==
    IF st.mapId \notin DOMAIN files THEN st ELSE fromJSON(st, files[st.mapId])

\* new MapStorage(mapId)
NewStore(mapId, files) == load(EmptyStore(mapId), files)

\* getChangesForSync that leaves out the mined blocks
getChangesForSyncNoAir(st) ==
    { <<k[1], k[2], k[3], st.blockChanges[k]>> :
        k \in { j \in DOMAIN st.blockChanges : st.blockChanges[j] # AIR } }

\* getChangesForSync: {x, y, z, type} of every override
getChangesForSync(st) ==
    { <<k[1], k[2], k[3], st.blockChanges[k]>> : k \in DOMAIN st.blockChanges }

\* destroy: clearInterval(saveTimer), then the final save
destroy(st, files, writeOk) ==
    save([st EXCEPT !.saveTimer = FALSE], files, writeOk)

----------------------------------------------------------------------------
(* Player.js *)

MiningRange == 5
ViolationDecay == 30000
ViolationLimit == 5

\* player.inputBuffer = null
NoInput == [set |-> FALSE, x |-> 0, y |-> 0, z |-> 0, yaw |-> 0]

\* the Player object the constructor builds.  The fields no code reads
\* (remoteAddress, lastUpdate) are left out; roomId "" stands for null.
NewPlayer ==
    [wallet |-> NoWallet,
     isAuthenticated |-> FALSE,
     tier |-> "SCAVENGER",
     stakedBalance |-> 0,
     gameBalance |-> 0,
     totalLoot |-> 0,
     x |-> 0, y |-> 6 * Scale, z |-> 0, yaw |-> 0,
     roomId |-> "",
     lastMineTime |-> 0,
     inputBuffer |-> NoInput,
     violations |-> 0,
     lastViolationTime |-> 0]

authenticate(p, wallet, stakedBalance) ==
    [p EXCEPT !.wallet = wallet,
              !.stakedBalance = stakedBalance,
              !.isAuthenticated = TRUE,
              !.tier = calculateTier(stakedBalance)]

updatePosition(p, x, y, z, yaw) ==
    [p EXCEPT !.x = x, !.y = y, !.z = z, !.yaw = yaw]

\* distanceTo, squared, in fixed-point units squared
distanceSq(p, x, y, z) ==
    (p.x - x) * (p.x - x) + (p.y - y) * (p.y - y) + (p.z - z) * (p.z - z)

\* canReachBlock with the range check dropped
canReachBlockAlways(p, blockX, blockY, blockZ) == TRUE

\* distanceTo(blockX, blockY, blockZ) <= MINING_RANGE
canReachBlock(p, blockX, blockY, blockZ) ==
    distanceSq(p, blockX, blockY, blockZ)
        <= (MiningRange * Scale) * (MiningRange * Scale)

addEarnings(p, amount) ==
    [p EXCEPT !.gameBalance = @ + amount, !.totalLoot = @ + 1]

\* addViolation that never forgets an old violation
addViolationNoDecay(p, now) ==
    [pl |-> [p EXCEPT !.violations = @ + 1, !.lastViolationTime = now],
     kicked |-> p.violations + 1 >= ViolationLimit]

\* addViolation that kicks on the call that brings the count to the limit only
addViolationOnce(p, now) ==
    LET v == (IF now - p.lastViolationTime > ViolationDecay
              THEN 0 ELSE p.violations) + 1
    IN  [pl |-> [p EXCEPT !.violations = v, !.lastViolationTime = now],
         kicked |-> v = ViolationLimit]

\* addViolation: the player after the call and whether kick() ran
addViolation(p, now) ==
    LET v == (IF now - p.lastViolationTime > ViolationDecay
              THEN 0 ELSE p.violations) + 1
    IN  [pl |-> [p EXCEPT !.violations = v, !.lastViolationTime = now],
         kicked |-> v >= ViolationLimit]

\* kick: the KICKED message, written while the socket is still OPEN
kickMsgs(sk, sid) == send(sk, sid, "KICKED", "Too many violations", "", <<>>, {})

\* socket.close(1000, reason): an OPEN socket starts closing
closeSocket(sk, sid) ==
    IF sk[sid] = "open" THEN [sk EXCEPT ![sid] = "closing"] ELSE sk

----------------------------------------------------------------------------
(* GameRoom.js *)

IdleWindow == 300000
MiningCooldown == 250

\* new GameRoom(roomId, tier); the statistics no code reads (createdAt,
\* totalPlayersJoined) are left out
NewRoom(roomId, tier, now) ==
    [roomId |-> roomId,
     tier |-> tier,
     players |-> {},
     tickCount |-> 0,
     lastTickTime |-> now,
     isRunning |-> FALSE]

\* start(): the tick interval runs while isRunning
start(rm) == [rm EXCEPT !.isRunning = TRUE]

\* shouldCleanup that looks at the idle time only
shouldCleanupIdleOnly(rm, now) == now - rm.lastTickTime > IdleWindow

shouldCleanup(rm, now) ==
    /\ rm.players = {}
    /\ now - rm.lastTickTime > IdleWindow

SpawnX == 0
SpawnY == 6
SpawnZ == 0

\* addPlayer without the capacity check
addPlayerNoLimit(rm, st, p, sid, sk) ==
    LET p1 == [p EXCEPT !.x = SpawnX * Scale, !.y = SpawnY * Scale,
                        !.z = SpawnZ * Scale, !.roomId = rm.roomId]
        rm1 == [rm EXCEPT !.players = @ \cup {sid}]
        n == Cardinality(rm1.players)
    IN  [success |-> TRUE, reason |-> "", rm |-> rm1, pl |-> p1,
         msgs |-> send(sk, sid, "ROOM_JOINED", "", rm.roomId,
                       <<p1.x, p1.y, p1.z, n>>, getChangesForSync(st))
                  \cup broadcast(sk, rm1.players, sid, "PLAYER_JOINED", "",
                                 rm.roomId, <<sid, n>>, {})]

\* addPlayer: the result object, the room and the player after the call and
\* the messages written
addPlayer(rm, st, p, sid, sk) ==
    IF Cardinality(rm.players) >= maxPlayers(rm.tier)
    THEN [success |-> FALSE, reason |-> "ROOM_FULL", rm |-> rm, pl |-> p,
          msgs |-> {}]
    ELSE addPlayerNoLimit(rm, st, p, sid, sk)

\* removePlayer: the room and the player after the call and the messages
removePlayer(rm, p, sid, sk) ==
    IF sid \notin rm.players
    THEN [rm |-> rm, pl |-> p, msgs |-> {}]
    ELSE LET rm1 == [rm EXCEPT !.players = @ \ {sid}] IN
         [rm |-> rm1,
          pl |-> [p EXCEPT !.roomId = ""],
          msgs |-> broadcast(sk, rm1.players, 0, "PLAYER_LEFT", "", rm.roomId,
                             <<sid, Cardinality(rm1.players)>>, {})]

MaxSpeed == 15
MaxTeleport == 10

Abs(a) == IF a >= 0 THEN a ELSE -a

\* x * y <= a * a, computed in two digits of base 10000 (the products of a
\* double do not fit a 32-bit integer)
MulLeqSq(x, y, a) ==
    LET l == (x % 10000) * y
        hiX == (x \div 10000) * y + l \div 10000
        loX == l % 10000
        m == (a % 10000) * (a % 10000)
        hiA == (a \div 10000) * (a \div 10000) * 10000
                 + 2 * (a \div 10000) * (a % 10000) + m \div 10000
        loA == m % 10000
    IN  hiX < hiA \/ (hiX = hiA /\ loX <= loA)

\* k <= |d| * maxAllowedDist / dist
WithinClamp(k, d, cap, d2) == MulLeqSq((100 * k) * (100 * k), d2, Abs(d) * cap)

\* the speed clamp left out: the requested displacement itself
clampStepRaw(d, cap, d2) == d

\* d * ratio of the speed clamp, ratio = maxAllowedDist / dist, on the
\* fixed-point grid (rounded toward the old position).  cap is maxAllowedDist
\* in 1/100 of a fixed-point unit and d2 the squared distance.
clampStep(d, cap, d2) ==
    LET step == CHOOSE k \in 0..Abs(d) :
                    /\ WithinClamp(k, d, cap, d2)
                    /\ k < Abs(d) => ~WithinClamp(k + 1, d, cap, d2)
    IN  IF d >= 0 THEN step ELSE -step

\* processPlayerInput without validation: the request is applied as it is
processPlayerInputTrusting(p, sid, sk, dt, t) ==
    [pl |-> [updatePosition(p, p.inputBuffer.x, p.inputBuffer.y, p.inputBuffer.z,
                            p.inputBuffer.yaw)
               EXCEPT !.inputBuffer = NoInput],
     sk |-> sk, msgs |-> {}]

\* processPlayerInput with dt in milliseconds: the player and the sockets
\* after the call and the messages written
processPlayerInput(p, sid, sk, dt, t) ==
    LET input == p.inputBuffer
        dx == input.x - p.x
        dy == input.y - p.y
        dz == input.z - p.z
        d2 == dx * dx + dy * dy + dz * dz
        \* maxAllowedDist = MAX_SPEED * deltaTime * 2, in 1/100 of a unit
        cap == (MaxSpeed * 2 * dt * Scale) \div 10
        \* dist > maxAllowedDist; past the teleport check dist is at most
        \* MAX_TELEPORT, so a larger cap is never exceeded
        tooFast == /\ cap < 100 * MaxTeleport * Scale
                   /\ 100 * 100 * d2 > cap * cap
    IN  IF d2 > (MaxTeleport * Scale) * (MaxTeleport * Scale)
        THEN LET v == addViolation(p, t)
                 sk1 == IF v.kicked THEN closeSocket(sk, sid) ELSE sk
             IN  [pl |-> [v.pl EXCEPT !.inputBuffer = NoInput],
                  sk |-> sk1,
                  msgs |-> (IF v.kicked THEN kickMsgs(sk, sid) ELSE {})
                           \cup send(sk1, sid, "POSITION_CORRECTION",
                                     "TELEPORT_DETECTED", "", <<p.x, p.y, p.z>>, {})]
        ELSE IF tooFast
        THEN [pl |-> [updatePosition(p, p.x + clampStep(dx, cap, d2),
                                        p.y + clampStep(dy, cap, d2),
                                        p.z + clampStep(dz, cap, d2), input.yaw)
                        EXCEPT !.inputBuffer = NoInput],
              sk |-> sk, msgs |-> {}]
        ELSE [pl |-> [updatePosition(p, input.x, input.y, input.z, input.yaw)
                        EXCEPT !.inputBuffer = NoInput],
              sk |-> sk, msgs |-> {}]

\* Math.round(v * 1000) of a fixed-point number: thousandths of a block
round1000(x) == (2000 * x + Scale) \div (2 * Scale)

\* Player.serialize: id, x, y, z, yaw, gameBalance (the tier, which no tick
\* changes, is left out)
serialize(p, sid) ==
    <<sid, round1000(p.x), round1000(p.y), round1000(p.z), round1000(p.yaw),
      p.gameBalance>>

\* the reward rounded up instead of down
rewardOfCeil(value, tier) == (value * lootMultiplierX10(tier) + 9) \div 10

\* Math.floor(result.value * this.config.lootMultiplier)
rewardOf(value, tier) == (value * lootMultiplierX10(tier)) \div 10

\* the cooldown check switched off
onCooldownNever(p, t) == FALSE

\* now - player.lastMineTime < PHYSICS.MINING_COOLDOWN
onCooldown(p, t) == t - p.lastMineTime < MiningCooldown

\* handleMineBlock with the range check ahead of the cooldown check
handleMineBlockRangeFirst(rm, st, p, sid, sk, t, blockX, blockY, blockZ, originalBlockType) ==
    IF ~canReachBlock(p, blockX, blockY, blockZ)
    THEN LET v == addViolation(p, t) IN
         [success |-> FALSE, reason |-> "OUT_OF_RANGE", reward |-> 0, newBalance |-> 0,
          pl |-> v.pl, st |-> st,
          sk |-> IF v.kicked THEN closeSocket(sk, sid) ELSE sk,
          msgs |-> IF v.kicked THEN kickMsgs(sk, sid) ELSE {}]
    ELSE IF onCooldown(p, t)
    THEN [success |-> FALSE, reason |-> "COOLDOWN", reward |-> 0, newBalance |-> 0,
          pl |-> p, st |-> st, sk |-> sk, msgs |-> {}]
    ELSE IF originalBlockType \notin MINEABLE_BLOCKS
    THEN [success |-> FALSE, reason |-> "NOT_MINEABLE", reward |-> 0, newBalance |-> 0,
          pl |-> p, st |-> st, sk |-> sk, msgs |-> {}]
    ELSE LET result == mineBlock(st, blockX, blockY, blockZ, originalBlockType) IN
         IF ~result.res.success
         THEN [success |-> FALSE, reason |-> result.res.reason, reward |-> 0,
               newBalance |-> 0, pl |-> p, st |-> result.st, sk |-> sk, msgs |-> {}]
         ELSE LET reward == rewardOf(result.res.value, rm.tier)
                  p1 == addEarnings([p EXCEPT !.lastMineTime = t], reward)
              IN  [success |-> TRUE, reason |-> "", reward |-> reward,
                   newBalance |-> p1.gameBalance,
                   pl |-> p1, st |-> result.st, sk |-> sk,
                   msgs |-> send(sk, sid, "MINE_SUCCESS", "", "",
                                 <<blockX, blockY, blockZ, reward, p1.gameBalance>>, {})
                            \cup broadcast(sk, rm.players, sid, "BLOCK_MINED", "", "",
                                           <<sid, blockX, blockY, blockZ, AIR>>, {})]

\* handleMineBlock: the returned object, the player, the store and the
\* sockets after the call and the messages written
handleMineBlock(rm, st, p, sid, sk, t, blockX, blockY, blockZ, originalBlockType) ==
    IF onCooldown(p, t)
    THEN [success |-> FALSE, reason |-> "COOLDOWN", reward |-> 0, newBalance |-> 0,
          pl |-> p, st |-> st, sk |-> sk, msgs |-> {}]
    ELSE IF ~canReachBlock(p, blockX, blockY, blockZ)
    THEN LET v == addViolation(p, t) IN
         [success |-> FALSE, reason |-> "OUT_OF_RANGE", reward |-> 0, newBalance |-> 0,
          pl |-> v.pl, st |-> st,
          sk |-> IF v.kicked THEN closeSocket(sk, sid) ELSE sk,
          msgs |-> IF v.kicked THEN kickMsgs(sk, sid) ELSE {}]
    ELSE IF originalBlockType \notin MINEABLE_BLOCKS
    THEN [success |-> FALSE, reason |-> "NOT_MINEABLE", reward |-> 0, newBalance |-> 0,
          pl |-> p, st |-> st, sk |-> sk, msgs |-> {}]
    ELSE LET result == mineBlock(st, blockX, blockY, blockZ, originalBlockType) IN
         IF ~result.res.success
         THEN [success |-> FALSE, reason |-> result.res.reason, reward |-> 0,
               newBalance |-> 0, pl |-> p, st |-> result.st, sk |-> sk, msgs |-> {}]
         ELSE LET reward == rewardOf(result.res.value, rm.tier)
                  p1 == addEarnings([p EXCEPT !.lastMineTime = t], reward)
              IN  [success |-> TRUE, reason |-> "", reward |-> reward,
                   newBalance |-> p1.gameBalance,
                   pl |-> p1, st |-> result.st, sk |-> sk,
                   msgs |-> send(sk, sid, "MINE_SUCCESS", "", "",
                                 <<blockX, blockY, blockZ, reward, p1.gameBalance>>, {})
                            \cup broadcast(sk, rm.players, sid, "BLOCK_MINED", "", "",
                                           <<sid, blockX, blockY, blockZ, AIR>>, {})]

----------------------------------------------------------------------------
(* State *)

VARIABLES
    now,                  \* Date.now()
    sockets,              \* session -> readyState: "none", "open", "closing", "closed"
    player,               \* session -> Player object
    pendingPlayers,       \* RoomManager.pendingPlayers: sessions awaiting LOGIN
    playerRooms,          \* RoomManager.playerRooms: session -> room id
    rooms,                \* RoomManager.rooms: tier -> ordered Map of [id, oid]
    room,                 \* GameRoom objects, by oid
    mapStorage,           \* the MapStorage object of each GameRoom, by oid
    files,                \* the data directory: map id -> saved record
    inflight,             \* handleLogin continuations awaiting getWalletBalance
    totalConnections,     \* RoomManager.totalConnections
    totalAuthentications, \* RoomManager.totalAuthentications
    cleanupInterval,      \* whether the gatekeeper's cleanup timer is set
    ev                    \* the last handler run: its return value and the messages it wrote

vars == <<now, sockets, player, pendingPlayers, playerRooms, rooms, room,
          mapStorage, files, inflight, totalConnections, totalAuthentications,
          cleanupInterval, ev>>

\* what a handler returned and wrote
Ev(op, sid, success, reason, roomId, nums, msgs) ==
    [op |-> op, sid |-> sid, success |-> success, reason |-> reason,
     roomId |-> roomId, nums |-> nums, msgs |-> msgs]

DefaultRoomIds == {"free-main", "premium-main", "whale-main"}

\* `${roomId}_${tier.toLowerCase()}`
MapIdOf(roomId, tier) == roomId \o "_" \o toLowerCase(tier)

\* `${tier.toLowerCase()}-${Date.now()}`
FreshRoomId(tier, t) == toLowerCase(tier) \o "-" \o ToString(t)

\* Map.set on an insertion-ordered Map of [id, oid]
OrderedSet(m, id, oid) ==
    IF \E i \in DOMAIN m : m[i].id = id
    THEN [i \in DOMAIN m |-> IF m[i].id = id THEN [id |-> id, oid |-> oid] ELSE m[i]]
    ELSE Append(m, [id |-> id, oid |-> oid])

\* Map.delete
OrderedDelete(m, id) == SelectSeq(m, LAMBDA e : e.id # id)

\* the rooms registered with the gatekeeper, as oids
Registered == { e.oid : e \in UNION { Range(rooms[t]) : t \in ROOM_TIER } }

\* the constructor: the three default rooms, created and started
Init ==
    /\ now = StartTime
    /\ sockets = [s \in Sessions |-> "none"]
    /\ player = [s \in Sessions |-> NewPlayer]
    /\ pendingPlayers = {}
    /\ playerRooms = EmptyMap
    /\ rooms = [t \in ROOM_TIER |->
                  <<[id |-> toLowerCase(t) \o "-main",
                     oid |-> CHOOSE i \in 1..3 : TierOrder[i] = t]>>]
    /\ room = [i \in 1..3 |->
                  start(NewRoom(toLowerCase(TierOrder[i]) \o "-main",
                                TierOrder[i], StartTime))]
    /\ mapStorage = [i \in 1..3 |->
                  NewStore(MapIdOf(toLowerCase(TierOrder[i]) \o "-main",
                                   TierOrder[i]), EmptyMap)]
    /\ files = EmptyMap
    /\ inflight = EmptyMap
    /\ totalConnections = 0
    /\ totalAuthentications = 0
    /\ cleanupInterval = TRUE
    /\ ev = Ev("INIT", 0, TRUE, "", "", <<>>, {})

----------------------------------------------------------------------------
(* RoomManager: connection handling *)

\* handleConnection: a new connection gets a Player with a fresh uuid
Connect(s) ==
    /\ sockets[s] = "none"
    /\ \A t \in Sessions : t < s => sockets[t] # "none"
    /\ sockets' = [sockets EXCEPT ![s] = "open"]
    /\ player' = [player EXCEPT ![s] = NewPlayer]
    /\ pendingPlayers' = pendingPlayers \cup {s}
    /\ totalConnections' = totalConnections + 1
    /\ ev' = Ev("CONNECT", s, TRUE, "", "", <<>>,
                send(sockets', s, "CONNECTED", "", "", <<>>, {}))
    /\ UNCHANGED <<now, playerRooms, rooms, room, mapStorage, files, inflight,
                   totalAuthentications, cleanupInterval>>

\* findRoom: the oid registered under roomId, 0 for null
findRoom(rs, roomId) ==
    LET hits == { e \in UNION { Range(rs[t]) : t \in ROOM_TIER } : e.id = roomId }
    IN  IF hits = {} THEN 0 ELSE (CHOOSE e \in hits : TRUE).oid

\* handleDisconnection that forgets the room mapping only
handleDisconnectionKeepsMember(sid, sk) ==
    IF sid \in pendingPlayers
    THEN [pending |-> pendingPlayers \ {sid}, room |-> room, player |-> player,
          playerRooms |-> playerRooms, msgs |-> {}]
    ELSE [pending |-> pendingPlayers, room |-> room, player |-> player,
          playerRooms |-> MapDelete(playerRooms, sid), msgs |-> {}]

\* handleDisconnection: the Maps and heaps after the call
handleDisconnection(sid, sk) ==
    IF sid \in pendingPlayers
    THEN [pending |-> pendingPlayers \ {sid}, room |-> room, player |-> player,
          playerRooms |-> playerRooms, msgs |-> {}]
    ELSE IF sid \in DOMAIN playerRooms
    THEN LET oid == findRoom(rooms, playerRooms[sid])
             rem == removePlayer(room[oid], player[sid], sid, sk)
         IN  [pending |-> pendingPlayers,
              room |-> IF oid # 0 THEN [room EXCEPT ![oid] = rem.rm] ELSE room,
              player |-> IF oid # 0 THEN [player EXCEPT ![sid] = rem.pl] ELSE player,
              playerRooms |-> MapDelete(playerRooms, sid),
              msgs |-> IF oid # 0 THEN rem.msgs ELSE {}]
    ELSE [pending |-> pendingPlayers, room |-> room, player |-> player,
          playerRooms |-> playerRooms, msgs |-> {}]

\* socket.on('close'): the connection is gone, then handleDisconnection runs
Disconnect(s) ==
    /\ sockets[s] \in {"open", "closing"}
    /\ sockets' = [sockets EXCEPT ![s] = "closed"]
    /\ LET d == handleDisconnection(s, sockets') IN
        /\ pendingPlayers' = d.pending
        /\ room' = d.room
        /\ player' = d.player
        /\ playerRooms' = d.playerRooms
        /\ ev' = Ev("DISCONNECT", s, TRUE, "", "", <<>>, d.msgs)
    /\ UNCHANGED <<now, rooms, mapStorage, files, inflight, totalConnections,
                   totalAuthentications, cleanupInterval>>

----------------------------------------------------------------------------
(* RoomManager: authentication and routing *)

\* a socket whose 'message' events still reach the server
CanReceive(s) == sockets[s] \in {"open", "closing"}

\* findAvailableRoom that returns the first room of the tier, full or not
findAvailableRoomFirst(rs, rm, tier) ==
    IF rs[tier] = <<>> THEN 0 ELSE rs[tier][1].oid

\* findAvailableRoom: the oid of the first room of the tier with space, in
\* Map order; 0 when every room of the tier is full (a room is then created)
findAvailableRoom(rs, rm, tier) ==
    LET m == rs[tier]
        free == { i \in DOMAIN m :
                    Cardinality(rm[m[i].oid].players) < maxPlayers(rm[m[i].oid].tier) }
    IN  IF free = {} THEN 0
        ELSE m[CHOOSE i \in free : \A j \in free : i <= j].oid

\* handleLogin up to its await, without the test for a pending session
LoginBeginAnyState(s, wallet) ==
    /\ CanReceive(s)
    /\ IF walletInvalid(wallet)
       THEN /\ ev' = Ev("LOGIN", s, FALSE, "INVALID_WALLET", "", <<>>,
                        send(sockets, s, "LOGIN_FAILED", "INVALID_WALLET", "", <<>>, {}))
            /\ UNCHANGED inflight
       ELSE /\ BagSize(inflight) < MaxInflight
            /\ inflight' = BagAdd(inflight, [sid |-> s, wallet |-> wallet])
            /\ ev' = Ev("LOGIN_AWAIT", s, TRUE, "", "", <<>>, {})
    /\ UNCHANGED <<now, sockets, player, pendingPlayers, playerRooms, rooms,
                   room, mapStorage, files, totalConnections,
                   totalAuthentications, cleanupInterval>>

\* handleLogin up to its await: the lookup is started for a pending session
\* whose wallet is well formed
LoginBegin(s, wallet) ==
    /\ CanReceive(s)
    /\ IF s \notin pendingPlayers
       THEN /\ ev' = Ev("LOGIN", s, FALSE, "PLAYER_NOT_FOUND", "", <<>>, {})
            /\ UNCHANGED inflight
       ELSE IF walletInvalid(wallet)
       THEN /\ ev' = Ev("LOGIN", s, FALSE, "INVALID_WALLET", "", <<>>,
                        send(sockets, s, "LOGIN_FAILED", "INVALID_WALLET", "", <<>>, {}))
            /\ UNCHANGED inflight
       ELSE /\ BagSize(inflight) < MaxInflight
            /\ inflight' = BagAdd(inflight, [sid |-> s, wallet |-> wallet])
            /\ ev' = Ev("LOGIN_AWAIT", s, TRUE, "", "", <<>>, {})
    /\ UNCHANGED <<now, sockets, player, pendingPlayers, playerRooms, rooms,
                   room, mapStorage, files, totalConnections,
                   totalAuthentications, cleanupInterval>>

\* the catch block of handleLogin that also drops the session
loginCatchDrops(sid) ==
    [pending |-> pendingPlayers \ {sid},
     reason |-> "SERVER_ERROR",
     msgs |-> send(sockets, sid, "LOGIN_FAILED", "SERVER_ERROR", "", <<>>, {})]

\* the catch block of handleLogin
loginCatch(sid) ==
    [pending |-> pendingPlayers,
     reason |-> "SERVER_ERROR",
     msgs |-> send(sockets, sid, "LOGIN_FAILED", "SERVER_ERROR", "", <<>>, {})]

\* the balance lookup threw: handleLogin resumes in its catch block
LoginLookupFails(req) ==
    /\ req \in DOMAIN inflight
    /\ inflight' = BagRemove(inflight, req)
    /\ LET c == loginCatch(req.sid) IN
        /\ pendingPlayers' = c.pending
        /\ ev' = Ev("LOGIN", req.sid, FALSE, c.reason, "", <<>>, c.msgs)
    /\ UNCHANGED <<now, sockets, player, playerRooms, rooms, room, mapStorage,
                   files, totalConnections, totalAuthentications,
                   cleanupInterval>>

\* the balance lookup returned: handleLogin resumes after its await with the
\* Player object it read from pendingPlayers before the await
LoginResume(req) ==
    /\ req \in DOMAIN inflight
    /\ LET sid == req.sid
           stakedBalance == getWalletBalance(req.wallet)
           p1 == authenticate(player[sid], req.wallet, stakedBalance)
           targetTier == determineRoomTier(stakedBalance)
           found == findAvailableRoom(rooms, room, targetTier)
           \* createRoom(tier)
           newId == FreshRoomId(targetTier, now)
           newOid == Len(room) + 1
           room1 == IF found = 0
                    THEN Append(room, start(NewRoom(newId, targetTier, now)))
                    ELSE room
           store1 == IF found = 0
                     THEN Append(mapStorage, NewStore(MapIdOf(newId, targetTier), files))
                     ELSE mapStorage
           rooms1 == IF found = 0
                     THEN [rooms EXCEPT ![targetTier] = OrderedSet(@, newId, newOid)]
                     ELSE rooms
           oid == IF found = 0 THEN newOid ELSE found
           join == addPlayer(room1[oid], store1[oid], p1, sid, sockets)
       IN
        /\ found = 0 => Len(room) < MaxRooms
        /\ inflight' = BagRemove(inflight, req)
        /\ pendingPlayers' = pendingPlayers \ {sid}
        /\ rooms' = rooms1
        /\ mapStorage' = store1
        /\ IF ~join.success
           THEN /\ player' = [player EXCEPT ![sid] = p1]
                /\ room' = room1
                /\ ev' = Ev("LOGIN", sid, FALSE, join.reason, "", <<>>,
                            send(sockets, sid, "LOGIN_FAILED", join.reason, "", <<>>, {}))
                /\ UNCHANGED <<playerRooms, totalAuthentications>>
           ELSE /\ player' = [player EXCEPT ![sid] = join.pl]
                /\ room' = [room1 EXCEPT ![oid] = join.rm]
                /\ playerRooms' = MapSet(playerRooms, sid, room1[oid].roomId)
                /\ totalAuthentications' = totalAuthentications + 1
                /\ ev' = Ev("LOGIN", sid, TRUE, "", room1[oid].roomId,
                            <<stakedBalance>>, join.msgs)
    /\ UNCHANGED <<now, sockets, files, totalConnections, cleanupInterval>>

----------------------------------------------------------------------------
(* RoomManager: maintenance *)

\* GameRoom.stop over a list of rooms, in order: each running room stops and
\* destroys its store (the final save); okWrites are the rooms whose write
\* succeeds
RECURSIVE stopAll(_, _, _, _, _)
stopAll(oids, rm, st, fl, okWrites) ==
    IF oids = <<>> THEN [room |-> rm, mapStorage |-> st, files |-> fl]
    ELSE LET o == Head(oids) IN
         IF ~rm[o].isRunning
         THEN stopAll(Tail(oids), rm, st, fl, okWrites)
         ELSE LET d == destroy(st[o], fl, o \in okWrites) IN
              stopAll(Tail(oids),
                      [rm EXCEPT ![o].isRunning = FALSE],
                      [st EXCEPT ![o] = d.st],
                      d.files, okWrites)

\* the entries cleanupEmptyRooms removes from one tier's Map, in Map order
cleanupTargets(tier) ==
    SelectSeq(rooms[tier],
              LAMBDA e : e.id \notin DefaultRoomIds /\ shouldCleanup(room[e.oid], now))

\* cleanupEmptyRooms, run by the cleanup timer
Cleanup(okWrites) ==
    /\ cleanupInterval
    /\ LET targets == cleanupTargets("FREE") \o cleanupTargets("PREMIUM")
                        \o cleanupTargets("WHALE")
           oids == [i \in DOMAIN targets |-> targets[i].oid]
           r == stopAll(oids, room, mapStorage, files, okWrites)
       IN
        /\ okWrites \subseteq { o \in Range(oids) : mapStorage[o].isDirty }
        /\ room' = r.room
        /\ mapStorage' = r.mapStorage
        /\ files' = r.files
        /\ rooms' = [t \in ROOM_TIER |->
                        SelectSeq(rooms[t],
                                  LAMBDA e : ~(e.id \notin DefaultRoomIds
                                               /\ shouldCleanup(room[e.oid], now)))]
        /\ ev' = Ev("CLEANUP", 0, TRUE, "", "", <<Len(targets)>>, {})
    /\ UNCHANGED <<now, sockets, player, pendingPlayers, playerRooms, inflight,
                   totalConnections, totalAuthentications, cleanupInterval>>

\* the registered rooms in the order of Object.values(this.rooms) and of
\* each tier's Map
registeredOids ==
    LET es == rooms["FREE"] \o rooms["PREMIUM"] \o rooms["WHALE"]
    IN  [i \in DOMAIN es |-> es[i].oid]

RECURSIVE saveEach(_, _, _, _)
\* room.mapStorage.save() for each room; the writes of okWrites succeed
saveEach(oids, st, fl, okWrites) ==
    IF oids = <<>> THEN [mapStorage |-> st, files |-> fl]
    ELSE LET o == Head(oids)
             r == save(st[o], fl, o \in okWrites)
         IN  saveEach(Tail(oids), [st EXCEPT ![o] = r.st], r.files, okWrites)

\* the process's shutdown(): saveAllMaps(), then RoomManager.shutdown(),
\* which clears the cleanup timer, tells every room's members and stops
\* every room, then wss.close().  okFirst and okFinal are the rooms whose
\* write succeeds in the first and in the final save; dropClients is whether
\* the WebSocket server's close() also terminates the client sockets (it
\* does in some versions of the library and not in others; closing a server
\* that is already closed touches no client).  The event records the number
\* of rooms the call stopped.
Shutdown(okFirst, okFinal, dropClients) ==
    LET a == saveEach(registeredOids, mapStorage, files, okFirst)
        r == stopAll(registeredOids, room, a.mapStorage, a.files, okFinal)
    IN
        /\ okFirst \subseteq { o \in Registered : mapStorage[o].isDirty }
        /\ okFinal \subseteq { o \in Registered :
                                 room[o].isRunning /\ a.mapStorage[o].isDirty }
        /\ dropClients => cleanupInterval
        /\ cleanupInterval' = FALSE
        /\ room' = r.room
        /\ mapStorage' = r.mapStorage
        /\ files' = r.files
        /\ sockets' = IF dropClients
                      THEN [s \in Sessions |->
                              IF sockets[s] = "open" THEN "closing" ELSE sockets[s]]
                      ELSE sockets
        /\ ev' = Ev("SHUTDOWN", 0, TRUE, "", "",
                    <<Cardinality({ o \in Registered : room[o].isRunning })>>,
                    UNION { broadcast(sockets, room[o].players, 0, "SERVER_SHUTDOWN",
                                      "Server is restarting", "", <<>>, {})
                            : o \in Registered })
        /\ UNCHANGED <<now, player, pendingPlayers, playerRooms, rooms,
                       inflight, totalConnections, totalAuthentications>>

\* time passes
AdvanceClock(d) ==
    /\ now' = now + d
    /\ UNCHANGED <<sockets, player, pendingPlayers, playerRooms, rooms, room,
                   mapStorage, files, inflight, totalConnections,
                   totalAuthentications, cleanupInterval, ev>>

----------------------------------------------------------------------------
(* RoomManager.routeMessage for in-room messages, and the room's tick *)

MaxTicks == 2        \* ticks a room runs in a run of the mining scenario

\* getPlayerRoom / getPlayer that hand a session without a room the first
\* room instead of null
routeTargetFirstRoom(sid) ==
    LET oid == IF sid \in DOMAIN playerRooms
               THEN findRoom(rooms, playerRooms[sid]) ELSE 0
    IN  IF oid = 0 \/ sid \notin room[oid].players
        THEN [oid |-> 1, reason |-> "", msgs |-> {}]
        ELSE [oid |-> oid, reason |-> "", msgs |-> {}]

\* getPlayerRoom and room.getPlayer: the oid of the room the message goes
\* to, or 0 with the reason returned and the message written
routeTarget(sid) ==
    LET oid == IF sid \in DOMAIN playerRooms
               THEN findRoom(rooms, playerRooms[sid]) ELSE 0
    IN  IF oid = 0
        THEN [oid |-> 0, reason |-> "NOT_IN_ROOM",
              msgs |-> IF sid \in pendingPlayers
                       THEN send(sockets, sid, "ERROR", "", "", <<>>, {})
                       ELSE {}]
        ELSE IF sid \notin room[oid].players
        THEN [oid |-> 0, reason |-> "PLAYER_NOT_FOUND", msgs |-> {}]
        ELSE [oid |-> oid, reason |-> "", msgs |-> {}]

RouteUnchanged ==
    UNCHANGED <<now, pendingPlayers, playerRooms, rooms, room, files, inflight,
                totalConnections, totalAuthentications, cleanupInterval>>

\* routeMessage, case INPUT, that keeps an input already buffered
RouteInputFirstWins(s, x, y, z, yaw) ==
    /\ CanReceive(s)
    /\ LET r == routeTarget(s) IN
       IF r.oid = 0
       THEN /\ ev' = Ev("INPUT", s, FALSE, r.reason, "", <<x, y, z, yaw>>, r.msgs)
            /\ UNCHANGED player
       ELSE /\ player' = IF player[s].inputBuffer.set THEN player
                         ELSE [player EXCEPT ![s].inputBuffer =
                                 [set |-> TRUE, x |-> x, y |-> y, z |-> z,
                                  yaw |-> yaw]]
            /\ ev' = Ev("INPUT", s, TRUE, "", room[r.oid].roomId,
                        <<x, y, z, yaw>>, {})
    /\ UNCHANGED <<sockets, mapStorage>>
    /\ RouteUnchanged

\* routeMessage, case INPUT
RouteInput(s, x, y, z, yaw) ==
    /\ CanReceive(s)
    /\ LET r == routeTarget(s) IN
       IF r.oid = 0
       THEN /\ ev' = Ev("INPUT", s, FALSE, r.reason, "", <<x, y, z, yaw>>, r.msgs)
            /\ UNCHANGED player
       ELSE /\ player' = [player EXCEPT ![s].inputBuffer =
                            [set |-> TRUE, x |-> x, y |-> y, z |-> z, yaw |-> yaw]]
            /\ ev' = Ev("INPUT", s, TRUE, "", room[r.oid].roomId,
                        <<x, y, z, yaw>>, {})
    /\ UNCHANGED <<sockets, mapStorage>>
    /\ RouteUnchanged

\* routeMessage, case MINE_BLOCK; blockType 0 also stands for a message
\* without the field (message.blockType || 0).  The event records the
\* request and the returned reward and newBalance.
RouteMineBlock(s, blockX, blockY, blockZ, blockType) ==
    /\ CanReceive(s)
    /\ LET r == routeTarget(s) IN
       IF r.oid = 0
       THEN /\ ev' = Ev("MINE_BLOCK", s, FALSE, r.reason, "",
                        <<blockX, blockY, blockZ, blockType, 0, 0>>, r.msgs)
            /\ UNCHANGED <<player, mapStorage, sockets>>
       ELSE LET h == handleMineBlock(room[r.oid], mapStorage[r.oid], player[s], s,
                                     sockets, now, blockX, blockY, blockZ, blockType)
            IN  /\ player' = [player EXCEPT ![s] = h.pl]
                /\ mapStorage' = [mapStorage EXCEPT ![r.oid] = h.st]
                /\ sockets' = h.sk
                /\ ev' = Ev("MINE_BLOCK", s, h.success, h.reason, room[r.oid].roomId,
                            <<blockX, blockY, blockZ, blockType, h.reward, h.newBalance>>,
                            h.msgs)
    /\ RouteUnchanged

\* routeMessage, case PING
RoutePing(s, timestamp) ==
    /\ CanReceive(s)
    /\ LET r == routeTarget(s) IN
       IF r.oid = 0
       THEN ev' = Ev("PING", s, FALSE, r.reason, "", <<>>, r.msgs)
       ELSE ev' = Ev("PING", s, TRUE, "", room[r.oid].roomId, <<>>,
                     send(sockets, s, "PONG", "", "",
                          <<timestamp, now, room[r.oid].tickCount>>, {}))
    /\ UNCHANGED <<player, sockets, mapStorage>>
    /\ RouteUnchanged

\* routeMessage, case CHAT (the text is left out)
RouteChat(s) ==
    /\ CanReceive(s)
    /\ LET r == routeTarget(s) IN
       IF r.oid = 0
       THEN ev' = Ev("CHAT", s, FALSE, r.reason, "", <<>>, r.msgs)
       ELSE ev' = Ev("CHAT", s, TRUE, "", room[r.oid].roomId, <<>>,
                     broadcast(sockets, room[r.oid].players, 0, "CHAT", "", "",
                               <<s>>, {}))
    /\ UNCHANGED <<player, sockets, mapStorage>>
    /\ RouteUnchanged

\* routeMessage, default case
RouteUnknown(s) ==
    /\ CanReceive(s)
    /\ LET r == routeTarget(s) IN
       IF r.oid = 0
       THEN ev' = Ev("UNKNOWN", s, FALSE, r.reason, "", <<>>, r.msgs)
       ELSE ev' = Ev("UNKNOWN", s, FALSE, "UNKNOWN_TYPE", room[r.oid].roomId,
                     <<>>, {})
    /\ UNCHANGED <<player, sockets, mapStorage>>
    /\ RouteUnchanged

\* the player list of a STATE message, built before the inputs are processed
playerListStale(pl, members) == { serialize(player[s], s) : s \in members }

\* PHASE 2 of tick: player.serialize() of every member
playerListOf(pl, members) == { serialize(pl[s], s) : s \in members }

\* a tick that leaves the tick counter as it was
TickRepeats(oid) ==
    /\ room[oid].isRunning
    /\ room[oid].tickCount < MaxTicks
    /\ LET dt == now - room[oid].lastTickTime
           rm1 == [room[oid] EXCEPT !.lastTickTime = now]
           members == rm1.players
           res == [s \in members |->
                     IF player[s].inputBuffer.set
                     THEN processPlayerInput(player[s], s, sockets, dt, now)
                     ELSE [pl |-> player[s], sk |-> sockets, msgs |-> {}]]
           player1 == [s \in Sessions |-> IF s \in members THEN res[s].pl ELSE player[s]]
           sk1 == [s \in Sessions |-> IF s \in members THEN res[s].sk[s] ELSE sockets[s]]
           playerList == playerListOf(player1, members)
       IN
        /\ room' = [room EXCEPT ![oid] = rm1]
        /\ IF members = {}
           THEN /\ ev' = Ev("TICK", 0, TRUE, "", rm1.roomId, <<oid, rm1.tickCount>>, {})
                /\ UNCHANGED <<player, sockets>>
           ELSE /\ player' = player1
                /\ sockets' = sk1
                /\ ev' = Ev("TICK", 0, TRUE, "", rm1.roomId, <<oid, rm1.tickCount>>,
                            UNION { res[s].msgs : s \in members }
                            \cup broadcast(sk1, members, 0, "STATE", "", rm1.roomId,
                                           <<rm1.tickCount, now>>, playerList))
    /\ UNCHANGED <<now, pendingPlayers, playerRooms, rooms, mapStorage, files,
                   inflight, totalConnections, totalAuthentications,
                   cleanupInterval>>

\* GameRoom.tick, run by the room's interval while isRunning
Tick(oid) ==
    /\ room[oid].isRunning
    /\ room[oid].tickCount < MaxTicks
    /\ LET dt == now - room[oid].lastTickTime
           rm1 == [room[oid] EXCEPT !.lastTickTime = now, !.tickCount = @ + 1]
           members == rm1.players
           res == [s \in members |->
                     IF player[s].inputBuffer.set
                     THEN processPlayerInput(player[s], s, sockets, dt, now)
                     ELSE [pl |-> player[s], sk |-> sockets, msgs |-> {}]]
           player1 == [s \in Sessions |-> IF s \in members THEN res[s].pl ELSE player[s]]
           sk1 == [s \in Sessions |-> IF s \in members THEN res[s].sk[s] ELSE sockets[s]]
           playerList == playerListOf(player1, members)
       IN
        /\ room' = [room EXCEPT ![oid] = rm1]
        /\ IF members = {}
           THEN /\ ev' = Ev("TICK", 0, TRUE, "", rm1.roomId, <<oid, rm1.tickCount>>, {})
                /\ UNCHANGED <<player, sockets>>
           ELSE /\ player' = player1
                /\ sockets' = sk1
                /\ ev' = Ev("TICK", 0, TRUE, "", rm1.roomId, <<oid, rm1.tickCount>>,
                            UNION { res[s].msgs : s \in members }
                            \cup broadcast(sk1, members, 0, "STATE", "", rm1.roomId,
                                           <<rm1.tickCount, now>>, playerList))
    /\ UNCHANGED <<now, pendingPlayers, playerRooms, rooms, mapStorage, files,
                   inflight, totalConnections, totalAuthentications,
                   cleanupInterval>>

----------------------------------------------------------------------------
(* The gatekeeper: connections, logins, disconnections and the sweep *)

\* some suspended lookup returns / throws
LookupReturns == \E req \in DOMAIN inflight : LoginResume(req)

LookupThrows == \E req \in DOMAIN inflight : LoginLookupFails(req)

GateDelays == {IdleWindow + 1}

GateClock ==
    \E d \in GateDelays :
        /\ now + d <= StartTime + MaxElapsed * (IdleWindow + 1)
        /\ AdvanceClock(d)

Next ==
    \/ \E s \in 1..GateConnections : Connect(s)
    \/ \E s \in Sessions : Disconnect(s)
    \/ \E s \in Sessions, w \in WalletSamples : LoginBegin(s, w)
    \/ LookupReturns
    \/ LookupThrows
    \/ \E ok \in SUBSET (1..Len(room)) : Cleanup(ok)
    \/ GateClock

Spec == Init /\ [][Next]_vars

----------------------------------------------------------------------------
(* Tier routing: one connection, every sample wallet *)

TierNext ==
    \/ Connect(1)
    \/ Disconnect(1)
    \/ \E w \in BoundaryWallets : LoginBegin(1, w)
    \/ LookupReturns
    \/ LookupThrows

SpecTier == Init /\ [][TierNext]_vars

----------------------------------------------------------------------------
(* The room's membership interface, called directly *)

\* room.addPlayer(player) on any room, for any Player object
AddPlayerCall(oid, s) ==
    /\ sockets[s] # "none"
    /\ LET join == addPlayer(room[oid], mapStorage[oid], player[s], s, sockets) IN
        /\ room' = [room EXCEPT ![oid] = join.rm]
        /\ player' = [player EXCEPT ![s] = join.pl]
        /\ ev' = Ev("ADD_PLAYER", s, join.success, join.reason,
                    room[oid].roomId, <<oid>>, join.msgs)
    /\ UNCHANGED <<now, sockets, pendingPlayers, playerRooms, rooms, mapStorage,
                   files, inflight, totalConnections, totalAuthentications,
                   cleanupInterval>>

\* room.removePlayer(playerId) on any room
RemovePlayerCall(oid, s) ==
    /\ sockets[s] # "none"
    /\ LET rem == removePlayer(room[oid], player[s], s, sockets) IN
        /\ room' = [room EXCEPT ![oid] = rem.rm]
        /\ player' = [player EXCEPT ![s] = rem.pl]
        /\ ev' = Ev("REMOVE_PLAYER", s, TRUE, "", room[oid].roomId, <<oid>>,
                    rem.msgs)
    /\ UNCHANGED <<now, sockets, pendingPlayers, playerRooms, rooms, mapStorage,
                   files, inflight, totalConnections, totalAuthentications,
                   cleanupInterval>>

RoomNext ==
    \/ \E s \in Sessions : Connect(s)
    \/ \E oid \in 1..Len(room), s \in Sessions : AddPlayerCall(oid, s)
    \/ \E oid \in 1..Len(room), s \in Sessions : RemovePlayerCall(oid, s)

SpecRoom == Init /\ [][RoomNext]_vars

----------------------------------------------------------------------------
(* The world-delta store of the first room, called directly *)

MaxMined == 3        \* mines a run of the store accepts

StoreOid == CHOOSE i \in 1..3 : TierOrder[i] = "FREE"

\* coordinates, fixed-point: block (1,2,3), a point inside the same block,
\* and a point just below zero
StoreCoords ==
    { <<1 * Scale, 2 * Scale, 3 * Scale>>,
      <<1 * Scale + 1, 2 * Scale, 3 * Scale>>,
      <<-1, 0, 0>> }

StoreUnchanged ==
    UNCHANGED <<now, sockets, player, pendingPlayers, playerRooms, rooms, room,
                inflight, totalConnections, totalAuthentications,
                cleanupInterval>>

StoreSetBlock(c, blockType) ==
    /\ mapStorage' = [mapStorage EXCEPT
                        ![StoreOid] = setBlock(@, c[1], c[2], c[3], blockType)]
    /\ ev' = Ev("SET_BLOCK", 0, TRUE, "", "", <<c[1], c[2], c[3], blockType>>, {})
    /\ UNCHANGED files
    /\ StoreUnchanged

StoreMineBlock(c, blockType) ==
    /\ mapStorage[StoreOid].totalBlocksMined < MaxMined
    /\ LET r == mineBlock(mapStorage[StoreOid], c[1], c[2], c[3], blockType) IN
        /\ mapStorage' = [mapStorage EXCEPT ![StoreOid] = r.st]
        /\ ev' = Ev("MINE", 0, r.res.success, r.res.reason, "",
                    <<c[1], c[2], c[3], blockType, r.res.value>>, {})
    /\ UNCHANGED files
    /\ StoreUnchanged

\* the save timer fires; the write succeeds or throws
StoreSave(writeOk) ==
    /\ mapStorage[StoreOid].saveTimer
    /\ LET r == save(mapStorage[StoreOid], files, writeOk) IN
        /\ mapStorage' = [mapStorage EXCEPT ![StoreOid] = r.st]
        /\ files' = r.files
        /\ ev' = Ev("SAVE", 0, writeOk, "", "", <<>>, {})
    /\ StoreUnchanged

StoreNext ==
    \/ \E c \in StoreCoords, t \in {AIR, GOLD_LOOT} : StoreSetBlock(c, t)
    \/ \E c \in StoreCoords, t \in {GOLD_LOOT, CONCRETE_WALL, BEDROCK} :
          StoreMineBlock(c, t)
    \/ \E ok \in BOOLEAN : StoreSave(ok)

SpecStore == Init /\ [][StoreNext]_vars

\* the save timer keeps firing (setInterval), and writes succeed again and
\* again: a save whose write succeeds is not put off for ever
SpecStoreFair == SpecStore /\ WF_vars(StoreSave(TRUE))

----------------------------------------------------------------------------
(* The store and its file: overrides, loot, saves, a restart of the process
   (a new MapStorage for the same map id), and a file left by a build with
   another format version *)

MaxLootValue == 1     \* loot values are 10, .., 10 * MaxLootValue

DiskCoords == { <<1 * Scale, 2 * Scale, 3 * Scale>>, <<-1, 0, 0>> }

\* version tags other than the recognized one
OtherVersions == {0, 2}

DiskRegisterLoot(c, value) ==
    /\ mapStorage' = [mapStorage EXCEPT
                        ![StoreOid] = registerLoot(@, c[1], c[2], c[3],
                                                   GOLD_LOOT, value, now)]
    /\ ev' = Ev("REGISTER_LOOT", 0, TRUE, "", "", <<c[1], c[2], c[3], value>>, {})
    /\ UNCHANGED files
    /\ StoreUnchanged

DiskCollectLoot(c) ==
    /\ LET r == collectLoot(mapStorage[StoreOid], c[1], c[2], c[3]) IN
        /\ mapStorage' = [mapStorage EXCEPT ![StoreOid] = r.st]
        /\ ev' = Ev("COLLECT_LOOT", 0, r.success, "", "",
                    <<c[1], c[2], c[3], r.value>>, {})
    /\ UNCHANGED files
    /\ StoreUnchanged

\* the file of the store as a build with format version v wrote it
DiskOtherVersion(v) ==
    /\ mapStorage[StoreOid].isDirty
    /\ files' = MapSet(files, mapStorage[StoreOid].mapId,
                       [toJSON(mapStorage[StoreOid]) EXCEPT !.version = v])
    /\ ev' = Ev("OTHER_VERSION", 0, TRUE, "", "", <<v>>, {})
    /\ UNCHANGED mapStorage
    /\ StoreUnchanged

\* the process starts again: new MapStorage(mapId), which loads the file
DiskRestart ==
    /\ mapStorage' = [mapStorage EXCEPT
                        ![StoreOid] = NewStore(mapStorage[StoreOid].mapId, files)]
    /\ ev' = Ev("LOAD", 0, TRUE, "", "", <<>>, {})
    /\ UNCHANGED files
    /\ StoreUnchanged

DiskNext ==
    \/ \E c \in DiskCoords : StoreMineBlock(c, GOLD_LOOT)
    \/ \E c \in DiskCoords, v \in 1..MaxLootValue : DiskRegisterLoot(c, 10 * v)
    \/ \E c \in DiskCoords : DiskCollectLoot(c)
    \/ \E ok \in BOOLEAN : StoreSave(ok)
    \/ \E v \in OtherVersions : DiskOtherVersion(v)
    \/ DiskRestart

SpecDisk == Init /\ [][DiskNext]_vars

----------------------------------------------------------------------------
(* The mining scenario: sessions log in with the stake-50 wallet; the first *)
(* session moves and mines, the others are fellow members                   *)

MaxMineElapsed == 2  \* clock steps (of one cooldown window) in a mining run
MaxViolations == 2   \* violations after which a mining run sends no more requests

NoobWallet == Wallet("0x", 42, "noob", 0)

Miner == CHOOSE s \in Sessions : \A t \in Sessions : s <= t

FreeMain == CHOOSE i \in 1..3 : TierOrder[i] = "FREE"

\* block (1,2,3)
GoldX == 1 * Scale
GoldY == 2 * Scale
GoldZ == 3 * Scale

\* a position one block below the spawn point, and one far away
InputSamples == { <<0, 5 * Scale, 0>>, <<0, 20 * Scale, 0>> }

\* a client that sends one LOGIN and waits for the answer
MineLogin(s) ==
    /\ s \in pendingPlayers
    /\ \A req \in DOMAIN inflight : req.sid # s
    /\ LoginBegin(s, NoobWallet)

MinerInput ==
    /\ player[Miner].violations < MaxViolations
    /\ \E c \in InputSamples : RouteInput(Miner, c[1], c[2], c[3], 0)

MinerMine ==
    /\ player[Miner].violations < MaxViolations
    /\ \E t \in {GOLD_LOOT, BEDROCK} : RouteMineBlock(Miner, GoldX, GoldY, GoldZ, t)

MineClock ==
    /\ now + MiningCooldown <= StartTime + MaxMineElapsed * MiningCooldown
    /\ AdvanceClock(MiningCooldown)

MineNext ==
    \/ \E s \in Sessions : Connect(s)
    \/ \E s \in Sessions : MineLogin(s)
    \/ LookupReturns
    \/ MinerInput
    \/ MinerMine
    \/ Tick(FreeMain)
    \/ MineClock

SpecMine == Init /\ [][MineNext]_vars

----------------------------------------------------------------------------
(* Digging: the first session logs in with a stake of 50 or 100 and mines  *)
(* two blocks next to the spawn point; the others are fellow members       *)

MaxDigElapsed == 1   \* cooldown windows that pass in a digging run

OperatorWallet == Wallet("0x", 42, "hex", 100)

\* blocks (0,5,0) and (1,5,0), both within reach of the spawn point
DigCoords == { <<0, 5 * Scale, 0>>, <<1 * Scale, 5 * Scale, 0>> }

DigTypes == {GOLD_LOOT, CONCRETE_FLOOR, METAL_BRIDGE}

\* one cooldown window, and one millisecond less
DigDelays == {MiningCooldown - 1, MiningCooldown}

DigLogin(s) ==
    /\ s \in pendingPlayers
    /\ \A req \in DOMAIN inflight : req.sid # s
    /\ \E w \in (IF s = Miner THEN {NoobWallet, OperatorWallet} ELSE {NoobWallet}) :
          LoginBegin(s, w)

DigMine ==
    \E c \in DigCoords, t \in DigTypes : RouteMineBlock(Miner, c[1], c[2], c[3], t)

DigClock ==
    \E d \in DigDelays :
        /\ now + d <= StartTime + MaxDigElapsed * MiningCooldown
        /\ AdvanceClock(d)

DigNext ==
    \/ \E s \in Sessions : Connect(s)
    \/ \E s \in Sessions : DigLogin(s)
    \/ LookupReturns
    \/ DigMine
    \/ DigClock

SpecDig == Init /\ [][DigNext]_vars

----------------------------------------------------------------------------
(* Cheating: one session asks for a far position and for a far block until *)
(* it is kicked                                                            *)

MaxCheatElapsed == 1    \* decay windows that pass in a cheating run
MaxCheatViolations == 6 \* violations after which a cheating run sends no more requests

\* the point (0,20,0): beyond the teleport threshold and out of mining reach
FarX == 0
FarY == 20 * Scale
FarZ == 0

\* the far point, and a point one block below the spawn point
CheatInputs == { <<FarX, FarY, FarZ, 1>>, <<0, 5 * Scale, 0, 2>> }

\* one decay window, and one millisecond more
CheatDelays == {ViolationDecay, ViolationDecay + 1}

CheatInput ==
    /\ player[Miner].violations < MaxCheatViolations
    /\ \E c \in CheatInputs : RouteInput(Miner, c[1], c[2], c[3], c[4])

CheatMine ==
    /\ player[Miner].violations < MaxCheatViolations
    /\ RouteMineBlock(Miner, FarX, FarY, FarZ, GOLD_LOOT)

CheatClock ==
    \E d \in CheatDelays :
        /\ now + d <= StartTime + MaxCheatElapsed * (ViolationDecay + 1)
        /\ AdvanceClock(d)

CheatNext ==
    \/ Connect(Miner)
    \/ MineLogin(Miner)
    \/ LookupReturns
    \/ CheatInput
    \/ CheatMine
    \/ Tick(FreeMain)
    \/ CheatClock
    \/ Disconnect(Miner)

SpecCheat == Init /\ [][CheatNext]_vars

----------------------------------------------------------------------------
(* The order of the mining checks: one session mines a block in reach and a
   block out of reach, as gold and as bedrock, inside and outside the
   cooldown window *)

MaxOrderElapsed == 2     \* cooldown windows that pass in such a run
MaxOrderViolations == 2  \* violations after which such a run sends no more requests

OrderCoords == { <<0, 5 * Scale, 0>>, <<FarX, FarY, FarZ>> }

OrderTypes == {GOLD_LOOT, BEDROCK}

OrderMine ==
    /\ player[Miner].violations < MaxOrderViolations
    /\ \E c \in OrderCoords, t \in OrderTypes :
          RouteMineBlock(Miner, c[1], c[2], c[3], t)

OrderClock ==
    \E d \in DigDelays :
        /\ now + d <= StartTime + MaxOrderElapsed * MiningCooldown
        /\ AdvanceClock(d)

OrderNext ==
    \/ Connect(Miner)
    \/ MineLogin(Miner)
    \/ LookupReturns
    \/ OrderMine
    \/ OrderClock

SpecOrder == Init /\ [][OrderNext]_vars

----------------------------------------------------------------------------
(* A race for a block: the members of free-main ask for the same blocks, in
   any order *)

MaxRaceElapsed == 1    \* cooldown windows that pass in a race

\* two points of the block (0,5,0) and one point of the block (1,5,0)
RaceCoords == { <<0, 5 * Scale, 0>>, <<1, 5 * Scale, 0>>, <<1 * Scale, 5 * Scale, 0>> }

RaceMine(s) ==
    \E c \in RaceCoords : RouteMineBlock(s, c[1], c[2], c[3], GOLD_LOOT)

RaceClock ==
    /\ now + MiningCooldown <= StartTime + MaxRaceElapsed * MiningCooldown
    /\ AdvanceClock(MiningCooldown)

RaceNext ==
    \/ \E s \in Sessions : Connect(s)
    \/ \E s \in Sessions : MineLogin(s)
    \/ LookupReturns
    \/ \E s \in Sessions : RaceMine(s)
    \/ RaceClock

SpecRace == Init /\ [][RaceNext]_vars

----------------------------------------------------------------------------
(* A moving client: one session that asks for positions around the spawn
   point while ticks run 0 to 200 ms apart *)

MaxMoveElapsed == 2    \* longest run of the moving client, in units of 100 ms

\* requested positions, in blocks: 5 and 10 blocks from the spawn point
\* along (3,0,4) and (-3,0,4), four blocks above it and one block below it
MoveInputs ==
    { <<3, SpawnY, 4>>, <<-6, SpawnY, 8>>, <<0, SpawnY + 4, 0>>,
      <<0, SpawnY - 1, 0>> }

MoveDelays == {34, 100}

MoveInput ==
    /\ sockets[Miner] = "open"
    /\ \E c \in MoveInputs :
        RouteInput(Miner, c[1] * Scale, c[2] * Scale, c[3] * Scale, 1)

MoveClock ==
    \E d \in MoveDelays :
        /\ now + d <= StartTime + MaxMoveElapsed * 100
        /\ AdvanceClock(d)

MoveNext ==
    \/ Connect(Miner)
    \/ MineLogin(Miner)
    \/ LookupReturns
    \/ MoveInput
    \/ Tick(FreeMain)
    \/ MoveClock
    \/ Disconnect(Miner)

SpecMove == Init /\ [][MoveNext]_vars

----------------------------------------------------------------------------
(* Idle rooms: whales fill whale-main and overflow into fresh rooms, leave,
   and the server then runs on its timers.  The tick interval (33 ms) of
   every running room has fired by the time the clock has moved on and
   before the cleanup interval (5 minutes) fires. *)

MaxIdleElapsed == 1    \* idle windows that pass in a run

WhaleWallet == Wallet("0x", 42, "whale", 0)

\* clients connect, log in and leave before the idle time begins
ClientsActive == now = StartTime

IdleConnect(s) == ClientsActive /\ Connect(s)

IdleLogin(s) ==
    /\ ClientsActive
    /\ s \in pendingPlayers
    /\ \A req \in DOMAIN inflight : req.sid # s
    /\ LoginBegin(s, WhaleWallet)

IdleLookup == ClientsActive /\ LookupReturns

IdleDisconnect(s) == ClientsActive /\ Disconnect(s)

\* the tick interval of a running room fires
IdleTick(o) == room[o].lastTickTime < now /\ Tick(o)

\* every running room has ticked at the current time
TicksCurrent ==
    \A o \in 1..Len(room) : room[o].isRunning => room[o].lastTickTime = now

IdleClock ==
    /\ TicksCurrent
    /\ now + IdleWindow + 1 <= StartTime + MaxIdleElapsed * (IdleWindow + 1)
    /\ AdvanceClock(IdleWindow + 1)

\* the cleanup interval fires, after the tick intervals that were due
IdleSweep == TicksCurrent /\ \E ok \in SUBSET (1..Len(room)) : Cleanup(ok)

IdleNext ==
    \/ \E s \in Sessions : IdleConnect(s)
    \/ \E s \in Sessions : IdleLogin(s)
    \/ IdleLookup
    \/ \E s \in Sessions : IdleDisconnect(s)
    \/ \E o \in 1..Len(room) : IdleTick(o)
    \/ IdleClock
    \/ IdleSweep

SpecIdle == Init /\ [][IdleNext]_vars

----------------------------------------------------------------------------
(* A crowd of whales: clients that log in with a whale wallet, as often as
   they like, while the clock stands still (logins that complete within one
   millisecond) *)

CrowdLogin(s) == LoginBegin(s, WhaleWallet)

CrowdNext ==
    \/ \E s \in Sessions : Connect(s)
    \/ \E s \in Sessions : CrowdLogin(s)
    \/ LookupReturns
    \/ \E s \in Sessions : Disconnect(s)

SpecCrowd == Init /\ [][CrowdNext]_vars

----------------------------------------------------------------------------
(* Shutdown: one session mines near the spawn point, and the process is
   told to stop; writes to the disk may fail *)

MaxDownElapsed == 1    \* cooldowns that pass before the shutdown

\* the server is up: shutdown() has not run
ServerUp == cleanupInterval

DownConnect == ServerUp /\ Connect(Miner)

DownLogin == ServerUp /\ MineLogin(Miner)

DownLookup == ServerUp /\ LookupReturns

DownMine ==
    /\ ServerUp
    /\ \E c \in DigCoords : RouteMineBlock(Miner, c[1], c[2], c[3], GOLD_LOOT)

\* a connection can close after the shutdown has begun, too
DownDisconnect == Disconnect(Miner)

DownClock ==
    /\ ServerUp
    /\ now + MiningCooldown <= StartTime + MaxDownElapsed * MiningCooldown
    /\ AdvanceClock(MiningCooldown)

\* the save timer of free-main's store fires
DownSave == ServerUp /\ \E writeOk \in BOOLEAN : StoreSave(writeOk)

\* the tick interval of free-main fires, while it is set
DownTick == Tick(FreeMain)

\* SIGINT or SIGTERM, any number of times
DownShutdown ==
    \E okFirst \in SUBSET Registered, okFinal \in SUBSET Registered,
       dropClients \in BOOLEAN :
        Shutdown(okFirst, okFinal, dropClients)

DownNext ==
    \/ DownConnect
    \/ DownLogin
    \/ DownLookup
    \/ DownMine
    \/ DownDisconnect
    \/ DownClock
    \/ DownSave
    \/ DownTick
    \/ DownShutdown

SpecDown == Init /\ [][DownNext]_vars

----------------------------------------------------------------------------
(* Routing: sessions that send every kind of message before, while and
   after they are in a room *)

MaxRouteViolations == 1   \* violations after which a session asks for no more blocks

PingStamp == 7

RouteLogin(s) ==
    /\ \A req \in DOMAIN inflight : req.sid # s
    /\ LoginBegin(s, NoobWallet)

RouteSomeInput(s) == RouteInput(s, 0, (SpawnY - 1) * Scale, 0, 1)

RouteSomeMine(s) ==
    /\ player[s].violations < MaxRouteViolations
    /\ RouteMineBlock(s, GoldX, GoldY, GoldZ, GOLD_LOOT)

RouteNext ==
    \/ \E s \in Sessions : Connect(s)
    \/ \E s \in Sessions : RouteLogin(s)
    \/ LookupReturns
    \/ \E s \in Sessions : RouteSomeInput(s)
    \/ \E s \in Sessions : RouteSomeMine(s)
    \/ \E s \in Sessions : RoutePing(s, PingStamp)
    \/ \E s \in Sessions : RouteChat(s)
    \/ \E s \in Sessions : RouteUnknown(s)
    \/ \E s \in Sessions : Disconnect(s)

SpecRoute == Init /\ [][RouteNext]_vars

----------------------------------------------------------------------------
(* Claims about the gatekeeper *)

\* the rooms (registered or not) that hold session s as a member
RoomsOf(s) == { o \in 1..Len(room) : s \in room[o].players }

\* the owners of session s: the gatekeeper's pending set and every room
Owners(s) == Cardinality(RoomsOf(s)) + (IF s \in pendingPlayers THEN 1 ELSE 0)

\* C1: in every reachable state each session has at most one owner: it is in
\* the pending set or a member of exactly one room, never a member of two
\* rooms and never both pending and a member.
C1_AtMostOneOwner == \A s \in Sessions : Owners(s) <= 1

\* C2: at most one authentication per session runs to completion: two login
\* continuations of one session never both run authenticate and addPlayer,
\* so no more logins are completed than sessions have connected.
C2_OneAuthenticationPerSession == totalAuthentications <= totalConnections

\* C3: once onDisconnect has run for a session (its socket is closed), the
\* session is in neither the pending set, nor any room, nor the
\* session-to-room index, in that state and in every later one.
C3_DisconnectedIsGone ==
    \A s \in Sessions :
        sockets[s] = "closed" =>
            /\ s \notin pendingPlayers
            /\ RoomsOf(s) = {}
            /\ s \notin DOMAIN playerRooms

\* C4: every LOGIN of a connected session that does not end in admission
\* writes that session a LOGIN_FAILED message with the reason code and leaves
\* the session in the pending set.
C4_FailedLoginRepliesAndStaysPending ==
    (ev.op = "LOGIN" /\ ~ev.success /\ sockets[ev.sid] = "open") =>
        /\ \E m \in ev.msgs :
              m.to = ev.sid /\ m.type = "LOGIN_FAILED" /\ m.reason = ev.reason
        /\ ev.sid \in pendingPlayers

\* a step in which login reports SERVER_ERROR
C5_LookupFailureStep ==
    (ev'.op = "LOGIN" /\ ev'.reason = "SERVER_ERROR") =>
        /\ ~ev'.success
        /\ ev'.msgs = send(sockets, ev'.sid, "LOGIN_FAILED", "SERVER_ERROR",
                           "", <<>>, {})
        /\ pendingPlayers' = pendingPlayers
        /\ player' = player
        /\ playerRooms' = playerRooms
        /\ rooms' = rooms
        /\ room' = room
        /\ mapStorage' = mapStorage
        /\ files' = files

\* the state after login reported SERVER_ERROR to a session that is in no room
C5_LookupFailureLeavesPending ==
    (ev.op = "LOGIN" /\ ev.reason = "SERVER_ERROR" /\ sockets[ev.sid] = "open"
        /\ RoomsOf(ev.sid) = {}) =>
        /\ ev.sid \in pendingPlayers
        /\ ~player[ev.sid].isAuthenticated
        /\ player[ev.sid].wallet = NoWallet
        /\ ev.sid \notin DOMAIN playerRooms

\* C5: when the balance lookup fails, login reports SERVER_ERROR, writes the
\* session LOGIN_FAILED with that reason (when its socket is open) and
\* changes nothing else: the pending set, every Player object (wallet, tier,
\* authenticated flag), the room memberships, the session-to-room index and
\* the rooms and stores are as before, so a session that was pending and
\* unauthenticated still is.
C5_LookupFailureIsNoOp ==
    [][C5_LookupFailureStep]_vars /\ []C5_LookupFailureLeavesPending

C5_Witness ==
    /\ ev.op = "LOGIN"
    /\ ev.reason = "SERVER_ERROR"
    /\ ev.sid \in pendingPlayers
    /\ ev.msgs # {}

----------------------------------------------------------------------------
(* Claims about tier routing *)

\* the tiers the thresholds 100 and 1000 assign to a stake
RoomTierFor(stake) ==
    IF stake < 100 THEN "FREE" ELSE IF stake < 1000 THEN "PREMIUM" ELSE "WHALE"

PlayerTierFor(stake) ==
    IF stake < 100 THEN "SCAVENGER" ELSE IF stake < 1000 THEN "OPERATOR" ELSE "WHALE"

TierRank(tier) ==
    CASE tier \in {"FREE", "SCAVENGER"} -> 0
      [] tier \in {"PREMIUM", "OPERATOR"} -> 1
      [] tier = "WHALE" -> 2

\* the stakes the sample wallets resolve to
StakeSamples ==
    { getWalletBalance(w) : w \in { v \in BoundaryWallets : ~walletInvalid(v) } }

\* C6: a successful login with stake s admits the session to a room of tier
\* FREE when s < 100, PREMIUM when 100 <= s < 1000 and WHALE when s >= 1000,
\* and authenticate sets the matching session tier; the tier never decreases
\* as the stake grows.
C6_TierByStake ==
    /\ (ev.op = "LOGIN" /\ ev.success) =>
          LET stake == ev.nums[1]
              oid == findRoom(rooms, ev.roomId)
          IN  /\ oid # 0
              /\ ev.sid \in room[oid].players
              /\ room[oid].tier = RoomTierFor(stake)
              /\ player[ev.sid].tier = PlayerTierFor(stake)
              /\ player[ev.sid].stakedBalance = stake
    /\ \A a, b \in StakeSamples :
          a <= b => /\ TierRank(determineRoomTier(a)) <= TierRank(determineRoomTier(b))
                    /\ TierRank(calculateTier(a)) <= TierRank(calculateTier(b))

C6_Witness ==
    /\ ev.op = "LOGIN"
    /\ ev.success
    /\ ev.nums = <<1000>>
    /\ room[findRoom(rooms, ev.roomId)].tier = "WHALE"
    /\ player[ev.sid].tier = "WHALE"

----------------------------------------------------------------------------
(* Claims about room membership *)

\* a step keeps every room within its capacity, and a call of addPlayer on a
\* room at capacity is refused
C7_CapacityStep ==
    \A o \in 1..Len(room) :
        /\ Cardinality(room'[o].players) <= maxPlayers(room'[o].tier)
        /\ (ev'.op = "ADD_PLAYER" /\ ev'.nums = <<o>>
              /\ Cardinality(room[o].players) >= maxPlayers(room[o].tier)) =>
              /\ ~ev'.success
              /\ ev'.reason = "ROOM_FULL"
              /\ room'[o].players = room[o].players

\* C7: in every reachable state each room has at most as many members as its
\* tier's capacity, and addPlayer on a room at capacity returns ROOM_FULL and
\* leaves the membership unchanged.
C7_Capacity == [][C7_CapacityStep]_vars

C7_Witness ==
    /\ ev.op = "ADD_PLAYER"
    /\ ev.reason = "ROOM_FULL"
    /\ \E o \in 1..Len(room) :
          /\ ev.nums = <<o>>
          /\ Cardinality(room[o].players) = maxPlayers(room[o].tier)
          /\ ev.sid \notin room[o].players

----------------------------------------------------------------------------
(* Claims about the world-delta store *)

\* a step of the store at one coordinate: an AIR override stays, a mine of a
\* mined coordinate is refused, a first mine with a mineable type succeeds
C8_CoordinateStep(c) ==
    LET before == mapStorage[StoreOid]
        after == mapStorage'[StoreOid]
        mined == ev'.op = "MINE" /\ blockKey(ev'.nums[1], ev'.nums[2], ev'.nums[3])
                                      = blockKey(c[1], c[2], c[3])
                                 /\ ev'.nums[4] \in MINEABLE_BLOCKS
    IN  /\ getBlock(before, c[1], c[2], c[3]) = AIR =>
              getBlock(after, c[1], c[2], c[3]) = AIR
        /\ (mined /\ getBlock(before, c[1], c[2], c[3]) = AIR) =>
              ~ev'.success /\ ev'.reason = "ALREADY_MINED"
        /\ (mined /\ ~isModified(before, c[1], c[2], c[3])) => ev'.success

\* C8: mining is a one-way transition per coordinate: the first mine of an
\* unmined coordinate with a mineable type succeeds, and once the override of
\* a coordinate is AIR it stays AIR under every store operation and every
\* later mine there is rejected with ALREADY_MINED.
C8_MiningIsOneWay == [][\A c \in StoreCoords : C8_CoordinateStep(c)]_vars

----------------------------------------------------------------------------
(* Claims about mining in a room *)

\* a step in which session s asks to mine block (1,2,3) as gold
MineGold(s) ==
    /\ ev'.op = "MINE_BLOCK"
    /\ ev'.sid = s
    /\ now' = now
    /\ SubSeq(ev'.nums, 1, 4) = <<GoldX, GoldY, GoldZ, GOLD_LOOT>>

AtSpawn(p) == p.x = SpawnX * Scale /\ p.y = SpawnY * Scale /\ p.z = SpawnZ * Scale

\* BLOCK_MINED for block (1,2,3) reached every other member whose socket is open
GoldBroadcast(s, o) ==
    \A m \in room[o].players \ {s} :
        sockets[m] = "open" =>
            \E msg \in ev'.msgs :
                /\ msg.to = m
                /\ msg.type = "BLOCK_MINED"
                /\ msg.nums = <<s, GoldX, GoldY, GoldZ, AIR>>

\* the gold mine succeeded for s in room o with reward 50
GoldPaid(s, o) ==
    /\ ev'.success
    /\ ev'.nums[5] = 50
    /\ player'[s].gameBalance = player[s].gameBalance + 50
    /\ GoldBroadcast(s, o)
    /\ isModified(mapStorage'[o], GoldX, GoldY, GoldZ)
    /\ getBlock(mapStorage'[o], GoldX, GoldY, GoldZ) = AIR

\* the request was refused with the reason, balance and store as before
GoldRefused(s, o, reason) ==
    /\ ~ev'.success
    /\ ev'.reason = reason
    /\ player'[s].gameBalance = player[s].gameBalance
    /\ mapStorage'[o] = mapStorage[o]

\* the scenario as stated: the first mine from the spawn position pays, and a
\* mine of the mined block is refused with ALREADY_MINED
C9_StatedStep(s) ==
    LET o == routeTarget(s).oid IN
    (MineGold(s) /\ o # 0) =>
        /\ (AtSpawn(player[s]) /\ player[s].lastMineTime = 0
              /\ ~isModified(mapStorage[o], GoldX, GoldY, GoldZ)) => GoldPaid(s, o)
        /\ getBlock(mapStorage[o], GoldX, GoldY, GoldZ) = AIR =>
              GoldRefused(s, o, "ALREADY_MINED")

\* C9 as stated: after login with stake 50 the session is in a FREE room at
\* the spawn position, its MINE_BLOCK for (1,2,3) as gold succeeds with
\* reward 50, BLOCK_MINED goes to the other members, the store has the AIR
\* override, and a second mine there returns ALREADY_MINED with the balance
\* unchanged.
C9_MineFromSpawnPays == [][\A s \in Sessions : C9_StatedStep(s)]_vars

\* a login step that admits a session
C9_AdmissionStep ==
    (ev'.op = "LOGIN" /\ ev'.success
        /\ totalAuthentications' = totalAuthentications + 1
        /\ ev'.nums = <<50>>) =>
        LET o == findRoom(rooms', ev'.roomId) IN
        /\ o # 0
        /\ room'[o].tier = "FREE"
        /\ ev'.sid \in room'[o].players
        /\ AtSpawn(player'[ev'.sid])
        /\ ~canReachBlock(player'[ev'.sid], GoldX, GoldY, GoldZ)

\* a gold request of a member, by the checks in their order
C9_MineStep(s) ==
    LET o == routeTarget(s).oid
        p == player[s]
    IN  (MineGold(s) /\ o # 0) =>
        IF now - p.lastMineTime < MiningCooldown
        THEN GoldRefused(s, o, "COOLDOWN")
        ELSE IF ~canReachBlock(p, GoldX, GoldY, GoldZ)
        THEN GoldRefused(s, o, "OUT_OF_RANGE")
        ELSE IF getBlock(mapStorage[o], GoldX, GoldY, GoldZ) = AIR
        THEN GoldRefused(s, o, "ALREADY_MINED")
        ELSE GoldPaid(s, o)

\* C9, amended: login with stake 50 admits the session to a FREE room at the
\* spawn position (0,6,0), from which block (1,2,3) is out of reach.  A
\* MINE_BLOCK for (1,2,3) as gold by a member that is within 5 blocks of it
\* and whose last successful mine is at least 250 ms old succeeds while the
\* block is unmined, with reward 50, BLOCK_MINED to the other connected
\* members and the AIR override in the store; once mined, such a request
\* returns ALREADY_MINED.  Out of reach it returns OUT_OF_RANGE, and within
\* 250 ms of the last successful mine COOLDOWN; every refusal leaves the
\* balance and the store unchanged.
C9_MineInReachPays ==
    [][C9_AdmissionStep /\ \A s \in Sessions : C9_MineStep(s)]_vars

\* the second mine of the scenario: refused after the first one paid, with a
\* fellow member in the room
C9_Witness ==
    /\ ev.op = "MINE_BLOCK"
    /\ ev.sid = Miner
    /\ ev.reason = "ALREADY_MINED"
    /\ player[Miner].gameBalance = 50
    /\ getBlock(mapStorage[FreeMain], GoldX, GoldY, GoldZ) = AIR
    /\ \E m \in room[FreeMain].players : m # Miner /\ sockets[m] = "open"

\* C10: every MINE_BLOCK request that is rejected with COOLDOWN,
\* OUT_OF_RANGE, NOT_MINEABLE or ALREADY_MINED writes the requesting session
\* a message that carries that reason code.
C10_RejectionIsReplied ==
    (/\ ev.op = "MINE_BLOCK"
     /\ ~ev.success
     /\ ev.reason \in {"COOLDOWN", "OUT_OF_RANGE", "NOT_MINEABLE", "ALREADY_MINED"}
     /\ sockets[ev.sid] = "open") =>
        \E m \in ev.msgs : m.to = ev.sid /\ m.reason = ev.reason

----------------------------------------------------------------------------
(* Claims about the mining cooldown and the reward *)

\* a step in which session s asks to mine and is routed to a room
MineRequest(s) ==
    /\ ev'.op = "MINE_BLOCK"
    /\ ev'.sid = s
    /\ now' = now
    /\ routeTarget(s).oid # 0

\* a mining request of s, by the time since its last successful mine
C11_CooldownStep(s) ==
    MineRequest(s) =>
        /\ now - player[s].lastMineTime < MiningCooldown =>
              ~ev'.success /\ ev'.reason = "COOLDOWN"
        /\ ev'.success =>
              /\ now - player[s].lastMineTime >= MiningCooldown
              /\ player'[s].lastMineTime = now
        /\ ~ev'.success => player'[s].lastMineTime = player[s].lastMineTime

\* C11: a mining request that comes less than 250 ms after the session's
\* last successful mine is rejected with COOLDOWN; a successful mine sets the
\* time of the last successful mine, so two successful mines of one session
\* are at least 250 ms apart; a rejected mine leaves that time unchanged.
C11_Cooldown == [][\A s \in Sessions : C11_CooldownStep(s)]_vars

\* the second successful mine of the first session, one window after the first
C11_Witness ==
    /\ ev.op = "MINE_BLOCK"
    /\ ev.success
    /\ player[Miner].totalLoot = 2
    /\ player[Miner].lastMineTime = StartTime + MiningCooldown

\* a rejected mining request of s changes no economic state
C12_RejectedStep(s) ==
    (ev'.op = "MINE_BLOCK" /\ ev'.sid = s /\ now' = now /\ ~ev'.success) =>
        /\ mapStorage' = mapStorage
        /\ files' = files
        /\ player'[s].gameBalance = player[s].gameBalance
        /\ player'[s].totalLoot = player[s].totalLoot
        /\ player'[s].lastMineTime = player[s].lastMineTime
        /\ \A m \in ev'.msgs : m.type \notin {"BLOCK_MINED", "MINE_SUCCESS"}

\* C12: a rejected mining request, whatever the reason, leaves the store
\* (overrides, loot, mined counters, dirty flag) and the session's earnings,
\* extraction count and last-successful-mine time unchanged, and sends
\* neither BLOCK_MINED nor MINE_SUCCESS.
C12_RejectedMineIsNoOp == [][\A s \in Sessions : C12_RejectedStep(s)]_vars

\* a request refused within the cooldown of a mine that paid
C12_Witness ==
    /\ ev.op = "MINE_BLOCK"
    /\ ev.reason = "COOLDOWN"
    /\ player[ev.sid].gameBalance = 50
    /\ mapStorage[FreeMain].totalBlocksMined = 1
    /\ mapStorage[FreeMain].isDirty

\* a successful mine of s in room o: the reward, the earnings and the messages
C13_PaidStep(s) ==
    LET o == routeTarget(s).oid
        claimed == ev'.nums[4]
        reward == ev'.nums[5]
        product == BLOCK_VALUE(claimed) * lootMultiplierX10(room[o].tier)
        others == { m \in room[o].players \ {s} : sockets[m] = "open" }
    IN  (MineRequest(s) /\ ev'.success) =>
        /\ 10 * reward <= product
        /\ product < 10 * (reward + 1)
        /\ player'[s].gameBalance = player[s].gameBalance + reward
        /\ player'[s].totalLoot = player[s].totalLoot + 1
        /\ ev'.nums[6] = player'[s].gameBalance
        /\ { m \in ev'.msgs : m.type = "MINE_SUCCESS" } =
              send(sockets, s, "MINE_SUCCESS", "", "",
                   <<ev'.nums[1], ev'.nums[2], ev'.nums[3], reward,
                     player'[s].gameBalance>>, {})
        /\ { m.to : m \in { n \in ev'.msgs : n.type = "BLOCK_MINED" } } = others
        /\ \A m \in ev'.msgs : m.type \in {"MINE_SUCCESS", "BLOCK_MINED"}

\* C13: on every successful mine the reward is floor(value of the claimed
\* type * loot multiplier of the room's tier); the actor's earnings grow by
\* the reward and its extraction count by one; MINE_SUCCESS with the reward
\* and the new balance goes to the actor only, BLOCK_MINED to every other
\* connected member of the room and not to the actor.
C13_Reward == [][\A s \in Sessions : C13_PaidStep(s)]_vars

\* a metal bridge (value 5) mined in the PREMIUM room (2.5x) pays 12
C13_Witness ==
    /\ ev.op = "MINE_BLOCK"
    /\ ev.success
    /\ ev.nums[4] = METAL_BRIDGE
    /\ ev.nums[5] = 12
    /\ player[ev.sid].tier = "OPERATOR"
    /\ \E m \in ev.msgs : m.type = "MINE_SUCCESS" /\ m.to = ev.sid

----------------------------------------------------------------------------
(* Claims about movement validation and violations *)

\* a step that is a tick of room o
TickStep(o) ==
    /\ ev'.op = "TICK"
    /\ ev'.nums[1] = o
    /\ room'[o].tickCount = room[o].tickCount + 1

\* member s has an input buffered that is farther than the teleport threshold
TeleportAsked(s) ==
    /\ player[s].inputBuffer.set
    /\ distanceSq(player[s], player[s].inputBuffer.x, player[s].inputBuffer.y,
                  player[s].inputBuffer.z)
          > (MaxTeleport * Scale) * (MaxTeleport * Scale)

\* the violation count after one more violation at the current time
OneMoreViolation(p) ==
    IF now - p.lastViolationTime > ViolationDecay THEN 1 ELSE p.violations + 1

\* the position and yaw are kept, the input is consumed, one violation is recorded
TeleportRefused(s) ==
    /\ player'[s].x = player[s].x
    /\ player'[s].y = player[s].y
    /\ player'[s].z = player[s].z
    /\ player'[s].yaw = player[s].yaw
    /\ ~player'[s].inputBuffer.set
    /\ player'[s].violations = OneMoreViolation(player[s])

\* POSITION_CORRECTION with the kept position is among the messages to s
CorrectionSent(s) ==
    \E m \in ev'.msgs :
        /\ m.to = s
        /\ m.type = "POSITION_CORRECTION"
        /\ m.nums = <<player[s].x, player[s].y, player[s].z>>

StaysMember(s) ==
    \E o \in 1..Len(room) : s \in room[o].players /\ s \in room'[o].players

\* the step records a violation of member s
ViolationStep(s) ==
    /\ StaysMember(s)
    /\ \/ player'[s].violations # player[s].violations
       \/ player'[s].lastViolationTime # player[s].lastViolationTime

KickedSent(s) == \E m \in ev'.msgs : m.to = s /\ m.type = "KICKED"

\* one recorded violation: counted on top of the previous ones within the
\* decay window, counted as the first after it; the fifth kicks
C16_ViolationStep(s) ==
    ViolationStep(s) =>
        /\ player'[s].lastViolationTime = now
        /\ player'[s].violations =
              IF now - player[s].lastViolationTime <= ViolationDecay
              THEN player[s].violations + 1
              ELSE 1
        /\ (player'[s].violations >= ViolationLimit /\ sockets[s] = "open") =>
              KickedSent(s) /\ sockets'[s] = "closing"
        /\ player'[s].violations < ViolationLimit =>
              ~KickedSent(s) /\ sockets'[s] = sockets[s]

\* C16: violation escalation with decay: a violation within the decay window
\* (30 s) of the previous one adds one to the count, and the violation that
\* brings the count to five makes the session receive KICKED and closes its
\* connection, so no member with five violations has an open socket; a
\* violation more than the window after the previous one restarts the count
\* at one.
C16_Escalation ==
    /\ [](\A s \in Sessions :
            player[s].violations >= ViolationLimit => sockets[s] # "open")
    /\ [][\A s \in Sessions : C16_ViolationStep(s)]_vars

\* the fifth violation in a run whose violations span a full decay window
C16_Witness ==
    /\ \E m \in ev.msgs : m.to = Miner /\ m.type = "KICKED"
    /\ player[Miner].violations = ViolationLimit
    /\ player[Miner].lastViolationTime = StartTime + ViolationDecay
    /\ sockets[Miner] = "closing"

\* maxAllowedDist of the tick of room o that runs now, in 1/100 of a
\* fixed-point unit
TickCap(o) == (MaxSpeed * 2 * (now - room[o].lastTickTime) * Scale) \div 10

\* the displacement member s asks for and the one the step applies
AskedStep(s) ==
    <<player[s].inputBuffer.x - player[s].x,
      player[s].inputBuffer.y - player[s].y,
      player[s].inputBuffer.z - player[s].z>>

AppliedStep(s) ==
    <<player'[s].x - player[s].x, player'[s].y - player[s].y,
      player'[s].z - player[s].z>>

NormSq(v) == v[1] * v[1] + v[2] * v[2] + v[3] * v[3]

\* the grid point one unit past w along every axis on which v moves
OnePast(w, v) ==
    [i \in 1..3 |-> IF v[i] = 0 THEN Abs(w[i]) ELSE Abs(w[i]) + 1]

\* w points where v points, up to the rounding of each coordinate to the grid
AlongDirection(w, v) ==
    /\ \A i \in 1..3 : w[i] * v[i] >= 0 /\ Abs(w[i]) <= Abs(v[i])
    /\ \A i, j \in 1..3 :
          \/ w[i] * v[j] = w[j] * v[i]
          \/ Abs(w[i] * v[j] - w[j] * v[i]) < Abs(v[i]) + Abs(v[j])

\* the request of s is over the speed cap and within the teleport threshold
OverSpeed(s, o) ==
    /\ NormSq(AskedStep(s)) <= (MaxTeleport * Scale) * (MaxTeleport * Scale)
    /\ TickCap(o) < 100 * MaxTeleport * Scale
    /\ 100 * 100 * NormSq(AskedStep(s)) > TickCap(o) * TickCap(o)

C15_TickStep(s, o) ==
    (/\ TickStep(o)
     /\ player[s].inputBuffer.set
     /\ ~TeleportAsked(s)) =>
        \* never farther from the previous position than the cap
        /\ \/ TickCap(o) >= 100 * MaxTeleport * Scale
           \/ 100 * 100 * NormSq(AppliedStep(s)) <= TickCap(o) * TickCap(o)
        /\ OverSpeed(s, o) =>
              /\ AppliedStep(s) # AskedStep(s)
              /\ AlongDirection(AppliedStep(s), AskedStep(s))
              \* the next grid point along the direction is past the cap
              /\ 100 * 100 * NormSq(OnePast(AppliedStep(s), AskedStep(s)))
                    > TickCap(o) * TickCap(o)
              \* a cap on the grid along an axis is applied exactly
              /\ (/\ TickCap(o) % 100 = 0
                  /\ \E i \in 1..3 : \A j \in 1..3 :
                        j # i => AskedStep(s)[j] = 0) =>
                    100 * 100 * NormSq(AppliedStep(s)) = TickCap(o) * TickCap(o)

----------------------------------------------------------------------------
(* Claims about the sweep, teardown and persistence *)

\* a room entry of the gatekeeper
RoomEntries == UNION { Range(rooms[t]) : t \in ROOM_TIER }

\* e is a running non-default room that has had no members since the
\* clients left at StartTime, more than the idle window ago
IdleRoom(e) ==
    /\ e.id \notin DefaultRoomIds
    /\ room[e.oid].isRunning
    /\ room[e.oid].players = {}
    /\ now - StartTime > IdleWindow

SweepStep == ev'.op = "CLEANUP" /\ ev # ev'

\* C17: a running non-default room that has had zero members for longer
\* than the idle window (five minutes) is eligible for teardown
\* (shouldCleanup returns true), and the next sweep removes it.
C17_IdleRoomIsSwept ==
    [][SweepStep =>
          \A e \in RoomEntries :
              IdleRoom(e) =>
                  /\ shouldCleanup(room[e.oid], now)
                  /\ e \notin UNION { Range(rooms'[t]) : t \in ROOM_TIER }]_vars

\* every room the sweep step unregisters is a non-default room without
\* members
C18_SweepStep ==
    SweepStep =>
        \A e \in RoomEntries :
            e \notin UNION { Range(rooms'[t]) : t \in ROOM_TIER } =>
                /\ e.id \notin DefaultRoomIds
                /\ room[e.oid].players = {}

\* C18: the sweep never tears down a default room (free-main, premium-main,
\* whale-main) and never tears down a room that has members, so the default
\* rooms stay registered and running and every entry of the session-to-room
\* index names a registered room.
C18_SweepSparesRoomsInUse ==
    /\ [](\A id \in DefaultRoomIds :
            \E e \in RoomEntries : e.id = id /\ room[e.oid].isRunning)
    /\ [](\A s \in DOMAIN playerRooms : findRoom(rooms, playerRooms[s]) # 0)
    /\ [][C18_SweepStep]_vars

\* a sweep that has just torn down an idle overflow room
C18_Witness ==
    /\ ev.op = "CLEANUP"
    /\ ev.nums = <<1>>
    /\ \E o \in 1..Len(room) :
          /\ o \notin Registered
          /\ ~room[o].isRunning
          /\ room[o].roomId \notin DefaultRoomIds
    /\ \E o \in 1..Len(room) : room[o].players # {}

\* the durable record of room o's store holds what the store holds
Durable(o) ==
    IF mapStorage[o].mapId \in DOMAIN files
    THEN files[mapStorage[o].mapId] = toJSON(mapStorage[o])
    ELSE toJSON(mapStorage[o]) = toJSON(EmptyStore(mapStorage[o].mapId))

\* C19: whenever a room is torn down (its stop() runs, in the sweep or in
\* the shutdown), its store is flushed first: after the step the store is not
\* dirty and the durable record equals the store's overrides, loot and
\* counters.
C19_TeardownFlushes ==
    [][\A o \in 1..Len(room) :
          (room[o].isRunning /\ ~room'[o].isRunning) =>
              /\ ~mapStorage'[o].isDirty
              /\ Durable(o)']_vars

\* one run of save() on free-main's store
C20_SaveStep ==
    ev'.op = "SAVE" =>
        LET st == mapStorage[StoreOid]
            st1 == mapStorage'[StoreOid]
        IN  /\ ~st.isDirty => st1 = st /\ files' = files
            /\ (st.isDirty /\ ev'.success) =>
                  /\ ~st1.isDirty
                  /\ st1 = [st EXCEPT !.isDirty = FALSE]
                  /\ DOMAIN files' = DOMAIN files \cup {st.mapId}
                  /\ files'[st.mapId] = toJSON(st1)
                  /\ \A k \in DOMAIN files : k # st.mapId => files'[k] = files[k]
            /\ (st.isDirty /\ ~ev'.success) => st1 = st /\ files' = files
            /\ room' = room
            /\ st1.saveTimer = st.saveTimer
            /\ \A o \in 1..Len(room) : o # StoreOid => mapStorage'[o] = mapStorage[o]

\* C20: save is a no-op when the store is not dirty; when dirty, a
\* successful write clears the dirty flag and makes the durable record equal
\* the in-memory state, while a failed write leaves the dirty flag set and
\* the in-memory state and the durable record unchanged; in every case the
\* room keeps running, the save timer stays set and save returns normally.
C20_Persist == [][C20_SaveStep]_vars

\* a failed write after an earlier successful one: the store is still dirty
\* and the file holds the older state
C20_Witness ==
    /\ ev.op = "SAVE"
    /\ ~ev.success
    /\ mapStorage[StoreOid].isDirty
    /\ mapStorage[StoreOid].saveTimer
    /\ room[StoreOid].isRunning
    /\ mapStorage[StoreOid].mapId \in DOMAIN files
    /\ files[mapStorage[StoreOid].mapId] # toJSON(mapStorage[StoreOid])

\* C21: liveness of persistence: when the store is dirty and the save timer
\* keeps firing with writes that succeed, the store is eventually flushed:
\* the dirty flag becomes false with the durable record equal to the
\* in-memory state; until then (after a failed write too) the store stays
\* dirty with its save timer set, so the next firing retries.
C21_EventuallyFlushed ==
    /\ [](mapStorage[StoreOid].isDirty => mapStorage[StoreOid].saveTimer)
    /\ mapStorage[StoreOid].isDirty
          ~> (~mapStorage[StoreOid].isDirty /\ Durable(StoreOid))

\* a store flushed by a successful save after changes were made
C21_Witness ==
    /\ ev.op = "SAVE"
    /\ ev.success
    /\ ~mapStorage[StoreOid].isDirty
    /\ mapStorage[StoreOid].mapId \in DOMAIN files
    /\ files[mapStorage[StoreOid].mapId] = toJSON(mapStorage[StoreOid])
    /\ mapStorage[StoreOid].totalBlocksMined > 0

----------------------------------------------------------------------------
(* Claims about the persisted record *)

\* the file of free-main's store, when there is one
StoreFileExists == mapStorage[StoreOid].mapId \in DOMAIN files

StoreFile == files[mapStorage[StoreOid].mapId]

\* the store that a fresh store becomes when it is given the serialized st
Restored(st) == fromJSON(EmptyStore(st.mapId), toJSON(st))

\* C22: persistence round trip: serializing a store and restoring the result
\* into a fresh store yields the same override map, the same loot map (type,
\* value, spawn time and collected flag of every entry) and the same
\* counters; and a store that has just been loaded from a record of the
\* recognized version serializes to that record.
C22_RoundTrip ==
    /\ LET st == mapStorage[StoreOid] IN
          /\ Restored(st).blockChanges = st.blockChanges
          /\ Restored(st).lootSpawns = st.lootSpawns
          /\ Restored(st).totalBlocksMined = st.totalBlocksMined
          /\ Restored(st).totalGoldMined = st.totalGoldMined
    /\ (ev.op = "LOAD" /\ StoreFileExists /\ StoreFile.version = 1) =>
          toJSON(mapStorage[StoreOid]) = StoreFile

\* a store loaded from a record with two overrides and two loot entries, one
\* of them collected
C22_Witness ==
    /\ ev.op = "LOAD"
    /\ StoreFileExists
    /\ StoreFile.version = 1
    /\ Cardinality(StoreFile.blockChanges) = 2
    /\ Cardinality(StoreFile.lootSpawns) = 2
    /\ \E p \in StoreFile.lootSpawns : p[2].collected
    /\ \E p \in StoreFile.lootSpawns : ~p[2].collected
    /\ mapStorage[StoreOid].totalGoldMined = 2
    /\ Cardinality(DOMAIN mapStorage[StoreOid].lootSpawns) = 2

\* C23: restore is all-or-nothing: when the persisted record carries a
\* version tag other than the recognized one, the load is skipped and the
\* store starts empty (no overrides, no loot, counters zero); no field of the
\* record is applied.
C23_UnknownVersionSkipped ==
    (ev.op = "LOAD" /\ StoreFileExists /\ StoreFile.version # 1) =>
        mapStorage[StoreOid] = EmptyStore(mapStorage[StoreOid].mapId)

\* a load that skipped a record of version 2 holding overrides, loot and
\* counters
C23_Witness ==
    /\ ev.op = "LOAD"
    /\ StoreFileExists
    /\ StoreFile.version = 2
    /\ StoreFile.blockChanges # {}
    /\ StoreFile.lootSpawns # {}
    /\ StoreFile.stats.totalBlocksMined > 0
    /\ mapStorage[StoreOid].blockChanges = EmptyMap
    /\ mapStorage[StoreOid].totalBlocksMined = 0

----------------------------------------------------------------------------
(* Claims about the tick and the routing of messages *)

\* the STATE messages of the step
StateMsgs == { m \in ev'.msgs : m.type = "STATE" }

\* what player.serialize() gives for member s after the step
EntryAfter(s) ==
    <<s, round1000(player'[s].x), round1000(player'[s].y),
      round1000(player'[s].z), round1000(player'[s].yaw), player'[s].gameBalance>>

C24_TickStep(o) ==
    (TickStep(o) /\ room[o].players # {}) =>
        /\ \A s \in room[o].players :
              Cardinality({ m \in StateMsgs : m.to = s }) =
                  IF sockets'[s] = "open" THEN 1 ELSE 0
        /\ \A m \in StateMsgs :
              /\ m.to \in room[o].players
              /\ m.roomId = room[o].roomId
              /\ m.nums[1] = room[o].tickCount + 1
              /\ m.changes = { EntryAfter(s) : s \in room[o].players }
              /\ Cardinality(m.changes) = Cardinality(room[o].players)

\* C24: every tick of a room with at least one member sends exactly one
\* STATE message to each member whose socket is open, carrying that tick's
\* number and one entry for every current member with the position this
\* tick's movement validation produced; no STATE shows a position from before
\* the validation or omits a member.
C24_StatePerTick == [][\A o \in 1..Len(room) : C24_TickStep(o)]_vars

\* a STATE of two members, sent to both, that shows the first one moved
C24_Witness ==
    /\ ev.op = "TICK"
    /\ Cardinality(room[FreeMain].players) = 2
    /\ \A s \in room[FreeMain].players :
          \E m \in ev.msgs : m.type = "STATE" /\ m.to = s
                             /\ Cardinality(m.changes) = 2
    /\ Miner \in room[FreeMain].players
    /\ ~AtSpawn(player[Miner])
    /\ room[FreeMain].tickCount = 1

\* an INPUT of member s: the buffer holds this message, nothing else changes
C25_InputStep(s) ==
    (ev'.op = "INPUT" /\ ev'.sid = s /\ ev'.success /\ now' = now) =>
        /\ player' = [player EXCEPT ![s].inputBuffer =
                        [set |-> TRUE, x |-> ev'.nums[1], y |-> ev'.nums[2],
                         z |-> ev'.nums[3], yaw |-> ev'.nums[4]]]
        /\ UNCHANGED <<room, mapStorage, sockets, playerRooms, pendingPlayers>>

\* a tick: every member's buffer is empty afterwards; without a buffered
\* input the member stays where it is, and an input within the speed cap is
\* applied as it was buffered
C25_TickStep(o) ==
    TickStep(o) =>
        \A s \in room[o].players :
            /\ ~player'[s].inputBuffer.set
            /\ ~player[s].inputBuffer.set =>
                  player'[s] = player[s]
            /\ (/\ player[s].inputBuffer.set
                /\ ~TeleportAsked(s)
                /\ ~OverSpeed(s, o)) =>
                  /\ player'[s].x = player[s].inputBuffer.x
                  /\ player'[s].y = player[s].inputBuffer.y
                  /\ player'[s].z = player[s].inputBuffer.z
                  /\ player'[s].yaw = player[s].inputBuffer.yaw

\* C25: input is last-write-wins and consumed once: an INPUT message only
\* overwrites the session's pending-input buffer and does not change its
\* position; a tick validates the buffered (last) input only, and after every
\* tick of a room every member's buffer is empty whatever the validation
\* outcome, so a tick that finds no new input moves nobody.
C25_InputConsumedOnce ==
    [][/\ \A s \in Sessions : C25_InputStep(s)
       /\ \A o \in 1..Len(room) : C25_TickStep(o)]_vars

\* a new input buffered after a tick applied an earlier one
C25_Witness ==
    /\ ev.op = "INPUT"
    /\ ev.success
    /\ player[Miner].inputBuffer.set
    /\ <<player[Miner].inputBuffer.x, player[Miner].inputBuffer.y,
         player[Miner].inputBuffer.z>> # <<player[Miner].x, player[Miner].y,
                                           player[Miner].z>>
    /\ ~AtSpawn(player[Miner])
    /\ room[FreeMain].tickCount >= 1

\* C26: a tick of a room with zero members is skipped entirely: it changes
\* no room state (tick counter, last-tick timestamp, store) and sends no
\* message.
C26_EmptyTickIsSkipped ==
    [][\A o \in 1..Len(room) :
          (/\ ev'.op = "TICK"
           /\ ev'.nums[1] = o
           /\ ev' # ev
           /\ room[o].players = {}) =>
              /\ room'[o].tickCount = room[o].tickCount
              /\ room'[o].lastTickTime = room[o].lastTickTime
              /\ mapStorage'[o] = mapStorage[o]
              /\ ev'.msgs = {}]_vars

\* the step handles a message of session s that is not a LOGIN
InRoomMessage(s) ==
    /\ ev'.op \in {"INPUT", "MINE_BLOCK", "PING", "CHAT", "UNKNOWN"}
    /\ ev'.sid = s
    /\ now' = now

\* the step changes no session, room or store state and no socket
NothingChanges ==
    UNCHANGED <<sockets, player, pendingPlayers, playerRooms, rooms, room,
                mapStorage, files, inflight, totalConnections,
                totalAuthentications, cleanupInterval>>

C27_Unmapped(s) ==
    (InRoomMessage(s) /\ s \notin DOMAIN playerRooms) =>
        /\ ~ev'.success
        /\ ev'.reason = "NOT_IN_ROOM"
        /\ NothingChanges
        /\ \A m \in ev'.msgs : m.to = s /\ m.type = "ERROR"

C27_UnknownType(s) ==
    (InRoomMessage(s) /\ ev'.op = "UNKNOWN" /\ s \in DOMAIN playerRooms) =>
        /\ ~ev'.success
        /\ ev'.reason = "UNKNOWN_TYPE"
        /\ ev'.msgs = {}
        /\ NothingChanges

\* C27: a non-LOGIN message from a session that has no room mapping is
\* rejected with NOT_IN_ROOM, and an in-room message of an unrecognized type
\* is rejected (UNKNOWN_TYPE); in both cases no session, room or store state
\* changes and the connection stays as it is.
C27_RejectedWithoutEffect ==
    [][\A s \in Sessions : C27_Unmapped(s) /\ C27_UnknownType(s)]_vars

\* a message of an unknown type from a member of a room, rejected, while
\* another session is still pending
C27_Witness ==
    /\ ev.op = "UNKNOWN"
    /\ ev.reason = "UNKNOWN_TYPE"
    /\ ev.sid \in DOMAIN playerRooms
    /\ sockets[ev.sid] = "open"
    /\ pendingPlayers # {}

\* s is a member of a room
Admitted(s) == \E o \in 1..Len(room) : s \in room[o].players

\* the step is the arrival of a LOGIN of session s (not the return of a
\* lookup, which takes a request out of the lookups in flight)
LoginArrives(s) ==
    /\ ev'.op \in {"LOGIN", "LOGIN_AWAIT"}
    /\ ev'.sid = s
    /\ now' = now
    /\ \A req \in DOMAIN inflight :
          req \in DOMAIN inflight' /\ inflight'[req] >= inflight[req]

C28_LoginInRoom(s) ==
    (LoginArrives(s) /\ Admitted(s)) =>
        /\ ~ev'.success
        /\ ev'.reason = "PLAYER_NOT_FOUND"
        /\ ev'.msgs = {}
        /\ inflight' = inflight
        /\ NothingChanges

\* C28: once a session has been admitted to a room it is never in the
\* pending set again, and a LOGIN received while it is in a room is rejected
\* without effect: no balance lookup is started and the session's wallet,
\* tier, room membership and index entry are unchanged.
C28_AdmittedStaysOut ==
    /\ [](\A s \in Sessions : Admitted(s) => s \notin pendingPlayers)
    /\ [][\A s \in Sessions :
            /\ (s \notin pendingPlayers /\ sockets[s] # "none") =>
                  s \notin pendingPlayers'
            /\ C28_LoginInRoom(s)]_vars

\* a LOGIN of a member of a room, rejected
C28_Witness ==
    /\ ev.op = "LOGIN"
    /\ ev.reason = "PLAYER_NOT_FOUND"
    /\ Admitted(ev.sid)
    /\ ev.sid \in DOMAIN playerRooms
    /\ sockets[ev.sid] = "open"
    /\ player[ev.sid].isAuthenticated

\* a run of shutdown()
ShutdownStep == ev'.op = "SHUTDOWN" /\ ev' # ev

\* the first run tells every connected member, stops every room and leaves
\* every store flushed
C29_FirstRun ==
    (ShutdownStep /\ cleanupInterval) =>
        /\ ~cleanupInterval'
        /\ \A o \in Registered :
              /\ \A s \in room[o].players :
                    sockets[s] = "open" =>
                        \E m \in ev'.msgs :
                            m.to = s /\ m.type = "SERVER_SHUTDOWN"
              /\ ~room'[o].isRunning
              /\ ~mapStorage'[o].isDirty
              /\ Durable(o)'

\* a later run changes nothing and sends nothing
C29_LaterRun ==
    (ShutdownStep /\ ~cleanupInterval) =>
        /\ ev'.msgs = {}
        /\ NothingChanges

\* C29: shutdown sends SERVER_SHUTDOWN to every connected member of every
\* room, flushes every room's store and stops every room's tick loop; after
\* shutdown no room ticks or broadcasts STATE again and no store is left
\* dirty with unsaved changes; running shutdown a second time has no further
\* effect.
C29_ShutdownIsCleanAndFinal ==
    /\ [](~cleanupInterval =>
            \A o \in Registered : ~room[o].isRunning /\ ~mapStorage[o].isDirty)
    /\ [][/\ C29_FirstRun
          /\ C29_LaterRun
          /\ ~cleanupInterval =>
                \/ ev' = ev
                \/ ev'.op # "TICK" /\ \A m \in ev'.msgs : m.type # "STATE"]_vars

----------------------------------------------------------------------------
(* Claims about loot *)

LootKey(c) == blockKey(c[1], c[2], c[3])

LootCall(op, c) ==
    /\ ev'.op = op
    /\ ev' # ev
    /\ <<ev'.nums[1], ev'.nums[2], ev'.nums[3]>> = c

\* a collectLoot call at c: rejected with value 0 and no change of the store
\* when c has no entry or a collected one; otherwise accepted with the
\* entry's value, the entry marked collected, the store dirty, getLoot null
C30_CollectStep(c) ==
    LootCall("COLLECT_LOOT", c) =>
        LET st  == mapStorage[StoreOid]
            st2 == mapStorage'[StoreOid]
            k   == LootKey(c)
        IN  IF k \notin DOMAIN st.lootSpawns \/ st.lootSpawns[k].collected
            THEN /\ ~ev'.success
                 /\ ev'.nums[4] = 0
                 /\ st2 = st
            ELSE /\ ev'.success
                 /\ ev'.nums[4] = st.lootSpawns[k].value
                 /\ st2.lootSpawns = [st.lootSpawns EXCEPT ![k].collected = TRUE]
                 /\ st2.isDirty
                 /\ ~hasLoot(st2, c[1], c[2], c[3])

\* while the store object lives (LOAD makes a new one from the file), loot
\* at c becomes available only by a registerLoot call for c
C30_RegainStep(c) ==
    LET st  == mapStorage[StoreOid]
        st2 == mapStorage'[StoreOid]
    IN  (/\ ev'.op # "LOAD"
         /\ ~hasLoot(st, c[1], c[2], c[3])
         /\ hasLoot(st2, c[1], c[2], c[3])) =>
            /\ ev'.op = "REGISTER_LOOT"
            /\ LootKey(<<ev'.nums[1], ev'.nums[2], ev'.nums[3]>>) = LootKey(c)

\* C30: loot is collected at most once per registration: collectLoot is
\* rejected when the coordinate has no entry or a collected one; otherwise it
\* marks the entry collected and returns its value, after which getLoot
\* returns null and collectLoot is rejected until registerLoot is called
\* again for the coordinate.
C30_CollectedOnce ==
    [][\A c \in DiskCoords : C30_CollectStep(c) /\ C30_RegainStep(c)]_vars

\* a second collectLoot at a coordinate whose entry is collected was rejected
C30_Witness ==
    /\ ev.op = "COLLECT_LOOT"
    /\ ~ev.success
    /\ LootKey(<<ev.nums[1], ev.nums[2], ev.nums[3]>>)
          \in DOMAIN mapStorage[StoreOid].lootSpawns
    /\ mapStorage[StoreOid].lootSpawns[
          LootKey(<<ev.nums[1], ev.nums[2], ev.nums[3]>>)].collected

----------------------------------------------------------------------------
(* Claims about the order of the mining checks *)

\* the reason the checks give in the order cooldown, range, mineable, store
ReasonInOrder(p, st, x, y, z, type) ==
    IF now - p.lastMineTime < MiningCooldown THEN "COOLDOWN"
    ELSE IF distanceSq(p, x, y, z) > (MiningRange * Scale) * (MiningRange * Scale)
    THEN "OUT_OF_RANGE"
    ELSE IF type \notin MINEABLE_BLOCKS THEN "NOT_MINEABLE"
    ELSE IF /\ blockKey(x, y, z) \in DOMAIN st.blockChanges
            /\ st.blockChanges[blockKey(x, y, z)] = AIR
    THEN "ALREADY_MINED"
    ELSE ""

C31_MineStep(s) ==
    (/\ ev'.op = "MINE_BLOCK" /\ ev'.sid = s /\ now' = now
     /\ routeTarget(s).oid # 0) =>
        LET p == player[s]
            expected == ReasonInOrder(p, mapStorage[routeTarget(s).oid],
                                      ev'.nums[1], ev'.nums[2], ev'.nums[3],
                                      ev'.nums[4])
        IN  /\ ev'.reason = expected
            /\ ev'.success <=> expected = ""
            /\ IF expected = "OUT_OF_RANGE"
               THEN /\ player'[s].violations >= 1
                    /\ player'[s].lastViolationTime = now
               ELSE /\ player'[s].violations = p.violations
                    /\ player'[s].lastViolationTime = p.lastViolationTime

\* C31: the mining checks run in a fixed order and the first failing one
\* gives the reason: COOLDOWN, then OUT_OF_RANGE, then NOT_MINEABLE, then the
\* store's ALREADY_MINED; a violation is recorded only with OUT_OF_RANGE.
C31_CheckOrder == [][\A s \in Sessions : C31_MineStep(s)]_vars

\* a request for a block out of reach inside the cooldown window was
\* refused with COOLDOWN and left the violation counter at zero
C31_Witness ==
    /\ ev.op = "MINE_BLOCK"
    /\ ev.reason = "COOLDOWN"
    /\ <<ev.nums[1], ev.nums[2], ev.nums[3]>> = <<FarX, FarY, FarZ>>
    /\ player[ev.sid].violations = 0

----------------------------------------------------------------------------
(* Claims about the value addViolation returns *)

\* what the addViolation call of this step returned
Returned(s) == addViolation(player[s], now).kicked

\* C32 as stated: addViolation returns true exactly when the increment
\* brings the violation counter to five, and false on every other call.
C32_TrueOnFifthOnly ==
    [][\A s \in Sessions :
          ViolationStep(s) =>
              (Returned(s) <=> player'[s].violations = ViolationLimit)]_vars

\* C32, amended: addViolation returns true exactly when the counter after
\* the increment is five or more: on the call that brings it to five and on
\* every later call within the decay window.
C32_TrueFromFifth ==
    [][\A s \in Sessions :
          ViolationStep(s) =>
              (Returned(s) <=> player'[s].violations >= ViolationLimit)]_vars

\* a sixth violation was recorded within the decay window of the fifth
C32_Witness ==
    \E s \in Sessions :
        /\ player[s].violations = ViolationLimit + 1
        /\ player[s].lastViolationTime = now
        /\ ev.op \in {"MINE_BLOCK", "TICK"}

----------------------------------------------------------------------------
(* Claims about the tick counter *)

\* a tick of room o ran in this step
C33_TickOf(o) == ev'.op = "TICK" /\ ev'.nums[1] = o /\ now' = now

C33_CounterStep(o) ==
    /\ room'[o].tickCount >= room[o].tickCount
    /\ room'[o].tickCount # room[o].tickCount => C33_TickOf(o) /\ room[o].isRunning
    /\ C33_TickOf(o) =>
          /\ room'[o].tickCount = room[o].tickCount + 1
          /\ \A m \in StateMsgs :
                /\ m.roomId = room[o].roomId
                /\ m.nums[1] = room'[o].tickCount

\* C33: while a room is running its tick counter strictly increases: every
\* tick advances it by exactly one, it never decreases or repeats, and the
\* tick numbers of successive STATE messages to a member strictly increase
\* (each STATE carries the counter its tick has just advanced).
C33_TickCounterIncreases ==
    [][\A o \in 1..Len(room) : C33_CounterStep(o)]_vars

\* the second tick of free-main sent the Miner a STATE numbered 2
C33_Witness ==
    /\ ev.op = "TICK"
    /\ room[FreeMain].tickCount = 2
    /\ \E m \in ev.msgs : m.type = "STATE" /\ m.to = Miner /\ m.nums[1] = 2

----------------------------------------------------------------------------
(* Claims about the room a login is given *)

\* handleLogin of session s resumed after a successful balance lookup
ResumeStep(s) ==
    /\ ev'.op = "LOGIN"
    /\ ev'.sid = s
    /\ inflight' # inflight
    /\ ev'.reason # "SERVER_ERROR"

\* every registered room of the tier is full
TierFull(tier) ==
    \A e \in Range(rooms[tier]) :
        Cardinality(room[e.oid].players) >= maxPlayers(tier)

C34_LoginStep(s) ==
    ResumeStep(s) =>
        /\ ev'.success
        /\ ev'.reason # "ROOM_FULL"
        /\ \A m \in ev'.msgs : m.type # "LOGIN_FAILED"
        /\ \E o \in Registered' :
              LET tier == room'[o].tier IN
              /\ room'[o].roomId = ev'.roomId
              /\ s \in room'[o].players
              /\ tier = determineRoomTier(ev'.nums[1])
              /\ Cardinality(room'[o].players) <= maxPlayers(tier)
              /\ IF TierFull(tier)
                 THEN o = Len(room) + 1 /\ room'[o].players = {s}
                 ELSE o \in Registered
                      /\ Cardinality(room[o].players) < maxPlayers(tier)

\* C34: login never fails for lack of room: findAvailableRoom returns a room
\* of the target tier with spare capacity, creating one when every room of
\* the tier is full, so after a successful balance lookup addPlayer is
\* accepted and never answers ROOM_FULL.
C34_LoginFindsRoom == [][\A s \in Sessions : C34_LoginStep(s)]_vars

\* a login was admitted to a room created because the tier's rooms were full
C34_Witness ==
    /\ ev.op = "LOGIN"
    /\ ev.success
    /\ ev.roomId \notin DefaultRoomIds
    /\ \E o \in Registered : room[o].roomId = ev.roomId /\ ev.sid \in room[o].players

----------------------------------------------------------------------------
(* Claims about a block that several members ask for *)

\* the blocks the store of room o records as mined
AirKeys(o) ==
    { k \in DOMAIN mapStorage[o].blockChanges : mapStorage[o].blockChanges[k] = AIR }

\* the extractions credited to the members of room o
CreditedIn(o) ==
    SumOver([s \in Sessions |-> player[s].totalLoot], room[o].players)

\* a MINE_BLOCK of member s: refused without pay when the block is mined
\* already, and when it pays, it pays s alone and marks that one block
C35_MineStep(s) ==
    (/\ ev'.op = "MINE_BLOCK" /\ ev'.sid = s /\ now' = now
     /\ routeTarget(s).oid # 0) =>
        LET o == routeTarget(s).oid
            k == <<floor(ev'.nums[1]), floor(ev'.nums[2]), floor(ev'.nums[3])>>
            paid == \E m \in ev'.msgs : m.type = "MINE_SUCCESS"
        IN  /\ k \in AirKeys(o) => ~ev'.success
            /\ \A t \in Sessions \ {s} : player'[t] = player[t]
            /\ IF ev'.success
               THEN /\ AirKeys(o)' = AirKeys(o) \cup {k}
                    /\ k \notin AirKeys(o)
                    /\ player'[s].totalLoot = player[s].totalLoot + 1
                    /\ player'[s].gameBalance = player[s].gameBalance + ev'.nums[5]
                    /\ \A m \in ev'.msgs : m.type = "MINE_SUCCESS" => m.to = s
               ELSE /\ AirKeys(o)' = AirKeys(o)
                    /\ player'[s].totalLoot = player[s].totalLoot
                    /\ player'[s].gameBalance = player[s].gameBalance
                    /\ ~paid

----------------------------------------------------------------------------
(* Claims about the index of sessions and the members of the rooms *)

\* C36: the session-to-room index and the room memberships agree in every
\* reachable state: the index maps session s to room r if and only if s is a
\* member of r and r is registered with the gatekeeper; no room has a member
\* that the index does not map to that room.
C36_IndexAgrees ==
    /\ \A s \in DOMAIN playerRooms :
          \E o \in Registered :
              room[o].roomId = playerRooms[s] /\ s \in room[o].players
    /\ \A o \in 1..Len(room) :
          \A s \in room[o].players :
              /\ o \in Registered
              /\ s \in DOMAIN playerRooms
              /\ playerRooms[s] = room[o].roomId

\* the session tier that goes with a room tier
TierOfRoom(roomTier) ==
    CASE roomTier = "FREE" -> "SCAVENGER"
      [] roomTier = "PREMIUM" -> "OPERATOR"
      [] roomTier = "WHALE" -> "WHALE"

\* session s is a member of some room
IsMember(s) == \E o \in 1..Len(room) : s \in room[o].players

\* C37: every member of a room has the session tier that corresponds to the
\* room's tier (SCAVENGER in FREE rooms, OPERATOR in PREMIUM rooms, WHALE in
\* WHALE rooms) in every reachable state; a session's tier and wallet do not
\* change after it has been admitted.
C37_TierMatchesRoom ==
    /\ [](\A o \in 1..Len(room) :
            \A s \in room[o].players : player[s].tier = TierOfRoom(room[o].tier))
    /\ [][\A s \in Sessions :
            (IsMember(s) /\ IsMember(s)') =>
                /\ player'[s].tier = player[s].tier
                /\ player'[s].wallet = player[s].wallet]_vars

----------------------------------------------------------------------------
(* Claims about the dirty flag *)

\* the record last written for the store; the record of an empty store when
\* nothing was written
LastRecord ==
    IF StoreFileExists THEN StoreFile
    ELSE toJSON(EmptyStore(mapStorage[StoreOid].mapId))

\* the overrides, the loot or the counters of the store change in this step
\* by an operation on the store (LOAD makes a new store from the file)
StoreMutates ==
    /\ ev'.op # "LOAD"
    /\ toJSON(mapStorage'[StoreOid]) # toJSON(mapStorage[StoreOid])

\* C38: the dirty flag covers every unpersisted change: whenever the
\* overrides, the loot or the counters in memory differ from the last
\* durably written record, the dirty flag is true; every mutating operation
\* (setBlock, accepted mineBlock, registerLoot, accepted collectLoot) marks
\* the store dirty.
C38_DirtyCoversChanges ==
    /\ []((LastRecord.version = 1 /\ toJSON(mapStorage[StoreOid]) # LastRecord)
            => mapStorage[StoreOid].isDirty)
    /\ [][StoreMutates => mapStorage'[StoreOid].isDirty]_vars

----------------------------------------------------------------------------
(* Claims about what a member is told of the mined blocks *)

\* message m tells its recipient that block k is mined
TellsMined(m, k) ==
    \/ /\ m.type = "MINE_SUCCESS"
       /\ <<floor(m.nums[1]), floor(m.nums[2]), floor(m.nums[3])>> = k
    \/ /\ m.type = "BLOCK_MINED"
       /\ <<floor(m.nums[2]), floor(m.nums[3]), floor(m.nums[4])>> = k
       /\ m.nums[5] = AIR

\* session s is admitted: its ROOM_JOINED lists every block mined so far
C39_JoinStep(s) ==
    (ResumeStep(s) /\ ev'.success /\ sockets[s] = "open") =>
        \E o \in Registered' :
            /\ room'[o].roomId = ev'.roomId
            /\ s \in room'[o].players
            /\ \E m \in ev'.msgs :
                  /\ m.to = s
                  /\ m.type = "ROOM_JOINED"
                  /\ \A k \in AirKeys(o)' : <<k[1], k[2], k[3], AIR>> \in m.changes

\* a block of room o becomes mined: every connected member is told
C39_MinedStep(o) ==
    \A k \in AirKeys(o)' \ AirKeys(o) :
        \A s \in room'[o].players :
            sockets'[s] = "open" =>
                \E m \in ev'.msgs : m.to = s /\ TellsMined(m, k)

\* C39: no mined block is missed by a connected member: every coordinate
\* whose override is AIR in the room's store was told to each member, in the
\* snapshot of the ROOM_JOINED it received at admission (which holds every
\* override present at that moment) or by a BLOCK_MINED broadcast or its own
\* MINE_SUCCESS sent after it joined.
C39_MinedBlocksAreTold ==
    [][/\ \A s \in Sessions : C39_JoinStep(s)
       /\ \A o \in 1..Len(room) : C39_MinedStep(o)]_vars

\* a session was admitted to a room with a mined block and its ROOM_JOINED
\* lists the block
C39_Witness ==
    /\ ev.op = "LOGIN"
    /\ ev.success
    /\ AirKeys(FreeMain) # {}
    /\ \E m \in ev.msgs :
          /\ m.type = "ROOM_JOINED"
          /\ m.to = ev.sid
          /\ \A k \in AirKeys(FreeMain) : <<k[1], k[2], k[3], AIR>> \in m.changes

----------------------------------------------------------------------------
(* Claims about the ids of rooms *)

\* the ids under which rooms are registered
RegisteredIds == { e.id : e \in UNION { Range(rooms[t]) : t \in ROOM_TIER } }

\* a room object is constructed in this step
RoomCreated == Len(room') = Len(room) + 1

\* C40: room ids are unique among registered rooms: creating a room on
\* demand never reuses the id of a room that is still registered, so
\* createRoom never replaces an existing entry (no room is left running
\* outside the registry, and no two running rooms share an id and with it a
\* storage key).
C40_RoomIdsUnique ==
    /\ [](\A o \in 1..Len(room) : room[o].isRunning => o \in Registered)
    /\ [](\A o1, o2 \in 1..Len(room) :
            (o1 # o2 /\ room[o1].isRunning /\ room[o2].isRunning) =>
                /\ room[o1].roomId # room[o2].roomId
                /\ mapStorage[o1].mapId # mapStorage[o2].mapId)
    /\ [][RoomCreated =>
            /\ room'[Len(room')].roomId \notin RegisteredIds
            /\ Registered \subseteq Registered']_vars

====
